---- MODULE Spec2Model ----
(***************************************************************************)
(* richer_progress: the Task / Progress estimation engine                  *)
(* (src/src/richer_progress/progress.py) and the registry and stand-ins of *)
(* src/src/richer_progress/multiprocessing.py, as a state machine.         *)
(*                                                                         *)
(* Objects are identified by an index: a Progress by its key in            *)
(* `progress`, a Task by its position in `tasks`.  An optional value       *)
(* (Python's None or a value) is the empty or the one-element sequence.    *)
(* Work amounts are integers (T_work = int).                               *)
(***************************************************************************)
EXTENDS Integers, Sequences, FiniteSets, TLC

(***************************************************************************)
(* Bounds of the model.                                                    *)
(***************************************************************************)
\* Tasks ever created by add_task in one run.
MaxTasks == 2
\* Largest sum of the tasks' completed amounts an update call is started towards.
MaxWork == 2
\* The same two bounds for the chain of nested Progresses.
MaxNestedTasks == 3
MaxNestedWork == 1
\* The workers of test_multiprocessing and the updates each makes.
NWorkers == 3
NUpdates == 3
MaxProxyTasks == 2
MaxProxyWork == 2
MaxIds == 2
MaxProxies == 1
MaxProgresses == 2
NThreads == 2
\* Longest range(n) and longest sequence handed to enumerate.
MaxRange == 2
\* Tasks ever added in the runs that follow the locks.
MaxLockTasks == 1

(***************************************************************************)
(* Optional values.                                                        *)
(***************************************************************************)
None == <<>>
Some(v) == <<v>>
Val(o) == o[1]

VARIABLES
    progress,   \* Progress identity -> its fields (Progress.__init__)
    tasks,      \* the Task objects ever created, in creation order
    call,       \* caller (thread of the owning process) -> its Task.update in flight
    script,     \* caller -> the calls its program has still to make (<<>>: any call)
    server,     \* the ProxyServer of the owning process: its two tables
    proxies,    \* the stand-ins (TaskProxy, ProgressProxy) handed out, in order
    result,     \* caller -> what the registry or serialization call it made last
                \*           returned, until it makes its next call
    hist,       \* history per Task, read by the properties only
    module,     \* richer_progress.multiprocessing: the metaclass's lock and
                \*           instances, ProxyClient's cache, what was constructed
    issued,     \* history: id -> the object register_* was called with
    sent        \* history per Task: what was sent to it through stand-ins

vars == <<progress, tasks, call, script, server, proxies, result, module, hist, issued, sent>>

\* What the Task and Progress methods never touch.
remote == <<server, proxies, module, issued>>
\* What only the Next relations keep: program positions and the stand-ins' books.
books == <<script, sent>>

Progresses == DOMAIN progress
Callers == DOMAIN call
TaskIds == 1..Len(tasks)

(***************************************************************************)
(* The renderer collaborator (rich.progress.Progress) as the rows it was   *)
(* told about.  A Progress built without one holds NoBar.                  *)
(***************************************************************************)
NoBar == [present |-> FALSE, started |-> FALSE, rows |-> <<>>]
NewBar == [present |-> TRUE, started |-> FALSE, rows |-> <<>>]

\* add_task(description, total=...): a new row; `ended` counts the remove_task
\* and stop_task calls made for it
BarAddTask(bar, total) ==
    [bar EXCEPT !.rows = Append(@, [state |-> "added", completed |-> Some(0),
                                    total |-> total, ended |-> 0])]

\* start_task, stop_task, remove_task
BarSetState(bar, row, st) ==
    [bar EXCEPT !.rows[row].state = st,
                !.rows[row].ended = IF st \in {"removed", "stopped"} THEN @ + 1 ELSE @]

BarUpdate(bar, row, completed, total) ==
    [bar EXCEPT !.rows[row].completed = Some(completed), !.rows[row].total = total]

(***************************************************************************)
(* Progress.__init__                                                       *)
(***************************************************************************)
\* threading.RLock(): the thread that holds it and how many times it took it
NewLock == [owner |-> None, count |-> 0]

IntCount(n) == [kind |-> "int", val |-> n]
ProgressCount(q) == [kind |-> "progress", val |-> q]

NewProgress(n_tasks, with_bar, with_overall) ==
    LET bar0 == IF with_bar THEN NewBar ELSE NoBar
        overall == with_bar /\ with_overall
        bar1 == IF overall THEN BarAddTask(bar0, None) ELSE bar0
    IN  [ n_tasks_completed |-> 0,
          n_tasks_cancelled |-> 0,
          active_tasks |-> <<>>,
          work_completed |-> 0,
          n_tasks |-> n_tasks,
          _progress_bar |-> bar1,
          _overall_progress_id |-> IF overall THEN Some(Len(bar1.rows)) ELSE None,
          _lock |-> NewLock ]

(***************************************************************************)
(* Task.__init__                                                           *)
(***************************************************************************)
NewTask(p, work_expected, progress_bar_task_id, transient) ==
    [ progress |-> p,
      work_expected |-> work_expected,
      progress_bar_task_id |-> progress_bar_task_id,
      transient |-> transient,
      work_completed |-> 0 ]

NewHist == [first_stop |-> "none", first_stop_work |-> 0, stopped_again |-> FALSE,
            delta_sum |-> 0]

IdleCall ==
    [pc |-> "idle", task |-> 0, delta |-> None, work_expected |-> None, loaded |-> 0,
     key |-> "", at |-> 0, iterable |-> <<>>]

(***************************************************************************)
(* Helpers on Python lists.                                                *)
(***************************************************************************)
Contains(s, x) == \E i \in 1..Len(s) : s[i] = x

ListRemoveNothing(s, x) == s
\* list.remove(x): drops the first occurrence
ListRemove(s, x) ==
    LET i == CHOOSE k \in 1..Len(s) : s[k] = x /\ \A j \in 1..(k - 1) : s[j] # x
    IN  SubSeq(s, 1, i - 1) \o SubSeq(s, i + 1, Len(s))

Max(a, b) == IF a >= b THEN a ELSE b

\* int(a / b) for b > 0: the quotient cut towards zero
IntOfQuotient(a, b) == IF a >= 0 THEN a \div b ELSE -((-a) \div b)

(***************************************************************************)
(* Progress.work_expected (the property), evaluated on the fields `ps` of  *)
(* one Progress and the Task objects `ts`; `n` is the resolved n_tasks.    *)
(***************************************************************************)
RECURSIVE KnownCount(_, _)
KnownCount(active, ts) ==
    IF active = <<>> THEN 0
    ELSE (IF ts[Head(active)].work_expected # None THEN 1 ELSE 0)
         + KnownCount(Tail(active), ts)

RECURSIVE KnownExpectedSum(_, _)
KnownExpectedSum(active, ts) ==
    IF active = <<>> THEN 0
    ELSE (IF ts[Head(active)].work_expected # None
          THEN Val(ts[Head(active)].work_expected) ELSE 0)
         + KnownExpectedSum(Tail(active), ts)

RECURSIVE ActiveCompletedSum(_, _)
ActiveCompletedSum(active, ts) ==
    IF active = <<>> THEN 0
    ELSE ts[Head(active)].work_completed + ActiveCompletedSum(Tail(active), ts)

\* n_tasks -= self.n_tasks_cancelled
LessCancelled(n, cancelled) == n - cancelled

NTasksKnownWithCancelled(ps, ts) ==
    ps.n_tasks_completed + ps.n_tasks_cancelled + KnownCount(ps.active_tasks, ts)
\* n_tasks_known = self.n_tasks_completed + sum(1 for t in active if known)
NTasksKnown(ps, ts) == ps.n_tasks_completed + KnownCount(ps.active_tasks, ts)

AtLeastKnownDrop(n, known) == n
\* n_tasks = max(n_tasks, n_tasks_known)
AtLeastKnown(n, known) == Max(n, known)

TotalWithActiveCompleted(ps, ts) ==
    ps.work_completed + KnownExpectedSum(ps.active_tasks, ts)
      + ActiveCompletedSum(ps.active_tasks, ts)
\* total_work_expected = self.work_completed + sum(known expected of active)
TotalWorkExpected(ps, ts) == ps.work_completed + KnownExpectedSum(ps.active_tasks, ts)

\* type(total)(total * n_tasks / n_tasks_known)
Scale(total, n, known) == IntOfQuotient(total * n, known)

Projection(ps, ts, n_resolved) ==
    IF n_resolved = None THEN None
    ELSE LET n1 == LessCancelled(Val(n_resolved), ps.n_tasks_cancelled)
             known == NTasksKnown(ps, ts)
         IN  IF known = 0 THEN None
             ELSE Some(Scale(TotalWorkExpected(ps, ts), AtLeastKnown(n1, known), known))

WorkExpectedFromInnerCompleted(pr, ts, p) ==
    Projection(pr[p], ts,
               IF pr[p].n_tasks.kind = "progress"
               THEN Some(pr[pr[p].n_tasks.val].work_completed)
               ELSE Some(pr[p].n_tasks.val))

RECURSIVE WorkExpectedOf(_, _, _)
WorkExpectedOf(pr, ts, p) ==
    Projection(pr[p], ts,
               IF pr[p].n_tasks.kind = "progress"
               THEN WorkExpectedOf(pr, ts, pr[p].n_tasks.val)
               ELSE Some(pr[p].n_tasks.val))

work_expected(p) == WorkExpectedOf(progress, tasks, p)

(***************************************************************************)
(* Progress._update, as its effect on the fields of the Progress.          *)
(***************************************************************************)
_update(pr, ts, p, t) ==
    LET ps == pr[p]
        bar0 == ps._progress_bar
    IN  IF ~bar0.present THEN ps
        ELSE LET bar1 == IF t # 0 /\ ts[t].progress_bar_task_id # None
                         THEN BarUpdate(bar0, Val(ts[t].progress_bar_task_id),
                                        ts[t].work_completed, ts[t].work_expected)
                         ELSE bar0
                 bar2 == IF ps._overall_progress_id # None
                         THEN BarUpdate(bar1, Val(ps._overall_progress_id),
                                        ps.work_completed
                                          + ActiveCompletedSum(ps.active_tasks, ts),
                                        WorkExpectedOf(pr, ts, p))
                         ELSE bar1
             IN  [ps EXCEPT !._progress_bar = bar2]

(***************************************************************************)
(* Progress._stop_task, as its effect on the fields of the Progress.       *)
(***************************************************************************)
StopTaskAssignsWork(ps, ts, t, cancelled, transient) ==
    IF ~Contains(ps.active_tasks, t) THEN ps
    ELSE IF cancelled
         THEN [ps EXCEPT !.active_tasks = ListRemove(@, t), !.n_tasks_cancelled = @ + 1]
         ELSE [ps EXCEPT !.active_tasks = ListRemove(@, t), !.n_tasks_completed = @ + 1,
                         !.work_completed = ts[t].work_completed]

StopTaskNoGuard(ps, ts, t, cancelled, transient) ==
    LET ps1 == IF Contains(ps.active_tasks, t)
               THEN [ps EXCEPT !.active_tasks = ListRemove(@, t)] ELSE ps
    IN  IF cancelled
        THEN [ps1 EXCEPT !.n_tasks_cancelled = @ + 1]
        ELSE [ps1 EXCEPT !.n_tasks_completed = @ + 1,
                         !.work_completed = @ + ts[t].work_completed]

StopTaskCountsCancelledWork(ps, ts, t, cancelled, transient) ==
    IF ~Contains(ps.active_tasks, t) THEN ps
    ELSE [ps EXCEPT !.active_tasks = ListRemove(@, t),
                    !.n_tasks_cancelled = IF cancelled THEN @ + 1 ELSE @,
                    !.n_tasks_completed = IF cancelled THEN @ ELSE @ + 1,
                    !.work_completed = @ + ts[t].work_completed]

StopTaskAlwaysRemoves(ps, ts, t, cancelled, transient) ==
    IF ~Contains(ps.active_tasks, t) THEN ps
    ELSE LET ps1 == [ps EXCEPT !.active_tasks = ListRemove(@, t)]
             ps2 == IF cancelled
                    THEN [ps1 EXCEPT !.n_tasks_cancelled = @ + 1]
                    ELSE [ps1 EXCEPT !.n_tasks_completed = @ + 1,
                                     !.work_completed = @ + ts[t].work_completed]
         IN  IF ps2._progress_bar.present /\ ts[t].progress_bar_task_id # None
             THEN [ps2 EXCEPT !._progress_bar =
                      BarSetState(@, Val(ts[t].progress_bar_task_id), "removed")]
             ELSE ps2

StopTask(ps, ts, t, cancelled, transient) ==
    IF ~Contains(ps.active_tasks, t)
    THEN ps   \* ValueError: the task was already removed
    ELSE LET ps1 == [ps EXCEPT !.active_tasks = ListRemove(@, t)]
             ps2 == IF cancelled
                    THEN [ps1 EXCEPT !.n_tasks_cancelled = @ + 1]
                    ELSE [ps1 EXCEPT !.n_tasks_completed = @ + 1,
                                     !.work_completed = @ + ts[t].work_completed]
         IN  IF ps2._progress_bar.present /\ ts[t].progress_bar_task_id # None
             THEN [ps2 EXCEPT !._progress_bar =
                      BarSetState(@, Val(ts[t].progress_bar_task_id),
                                  IF transient THEN "removed" ELSE "stopped")]
             ELSE ps2

\* What the properties remember of the stop calls made on a task.
HistStop(h, ts, t, cancelled) ==
    IF h[t].first_stop # "none" THEN [h EXCEPT ![t].stopped_again = TRUE]
    ELSE [h EXCEPT ![t].first_stop = IF cancelled THEN "cancelled" ELSE "completed",
                   ![t].first_stop_work = IF cancelled THEN 0 ELSE ts[t].work_completed]

(***************************************************************************)
(* The operations.  `c` is the calling thread; a thread makes one call at  *)
(* a time.  Every operation but Task.update runs under the Progress lock   *)
(* from its first read to its last write, and is one step.                 *)
(***************************************************************************)
Idle(c) == call[c].pc = "idle"

\* What a registry or serialization call returned or raised; the caller keeps
\* it until its next call.
NoResult == [call |-> "none", arg |-> 0, kind |-> "none", val |-> 0, note |-> None]
Returned(name, arg, kind, val) ==
    [call |-> name, arg |-> arg, kind |-> kind, val |-> val, note |-> None]
\* an exception of class `kind`; note: what add_note attached to it, if anything
Raised(name, arg, kind, note) ==
    [call |-> name, arg |-> arg, kind |-> kind, val |-> 0, note |-> note]
Cleared(c) == result' = [result EXCEPT ![c] = NoResult]

\* Progress.add_task
add_task(c, p, work_expected_arg, labelled, transient) ==
    /\ Idle(c)
    /\ LET ps == progress[p]
           with_row == ps._progress_bar.present /\ labelled
           bar1 == IF with_row THEN BarAddTask(ps._progress_bar, work_expected_arg)
                   ELSE ps._progress_bar
           row == IF with_row THEN Some(Len(bar1.rows)) ELSE None
           t == Len(tasks) + 1
       IN  /\ tasks' = Append(tasks, NewTask(p, work_expected_arg, row, transient))
           /\ progress' = [progress EXCEPT ![p] =
                             [ps EXCEPT !._progress_bar = bar1,
                                        !.active_tasks = Append(@, t)]]
           /\ hist' = Append(hist, NewHist)
    /\ UNCHANGED <<call, remote>>
    /\ Cleared(c)

\* Task.start -> Progress._start_task
start(c, t) ==
    /\ Idle(c)
    /\ LET p == tasks[t].progress
           ps == progress[p]
       IN  progress' = [progress EXCEPT ![p] =
              IF ps._progress_bar.present /\ tasks[t].progress_bar_task_id # None
              THEN [ps EXCEPT !._progress_bar =
                       BarSetState(@, Val(tasks[t].progress_bar_task_id), "started")]
              ELSE ps]
    /\ UNCHANGED <<tasks, call, hist, remote>>
    /\ Cleared(c)

\* Task.stop / Task.cancel -> Progress._stop_task
stop(c, t, cancelled) ==
    /\ Idle(c)
    /\ LET p == tasks[t].progress
       IN  progress' = [progress EXCEPT ![p] =
                          StopTask(@, tasks, t, cancelled, tasks[t].transient)]
    /\ hist' = HistStop(hist, tasks, t, cancelled)
    /\ UNCHANGED <<tasks, call, remote>>
    /\ Cleared(c)

\* Task.update, lines 47-48: self.work_completed = <the value read> + delta
TaskAdd(ts, t, loaded, delta) ==
    IF delta # None THEN [ts EXCEPT ![t].work_completed = loaded + Val(delta)] ELSE ts

\* Task.update, lines 49-50: self.work_expected = work_expected
TaskSetExpected(ts, t, work_expected_arg) ==
    IF work_expected_arg # None THEN [ts EXCEPT ![t].work_expected = work_expected_arg]
    ELSE ts

HistUpdate(h, t, delta) ==
    [h EXCEPT ![t].delta_sum = @ + (IF delta # None THEN Val(delta) ELSE 0)]

\* Task.update, run by a thread that no other thread interrupts
update(c, t, delta, work_expected_arg) ==
    /\ Idle(c)
    /\ tasks' = TaskSetExpected(TaskAdd(tasks, t, tasks[t].work_completed, delta),
                                t, work_expected_arg)
    /\ LET p == tasks[t].progress
       IN  progress' = [progress EXCEPT ![p] = _update(progress, tasks', p, t)]
    /\ hist' = HistUpdate(hist, t, delta)
    /\ UNCHANGED <<call, remote>>
    /\ Cleared(c)

\* Task.update step by step, as other threads see it.  Entered: with a delta,
\* self.work_completed is read.
update_enter(c, t, delta, work_expected_arg) ==
    /\ Idle(c)
    /\ call' = [call EXCEPT ![c] =
                  [pc |-> "add", task |-> t, delta |-> delta,
                   work_expected |-> work_expected_arg,
                   loaded |-> IF delta # None THEN tasks[t].work_completed ELSE 0,
                   key |-> "", at |-> 0, iterable |-> <<>>]]
    /\ UNCHANGED <<progress, tasks, hist, remote>>
    /\ Cleared(c)

update_add(c) ==
    /\ call[c].pc = "add"
    /\ tasks' = TaskAdd(tasks, call[c].task, call[c].loaded, call[c].delta)
    /\ call' = [call EXCEPT ![c].pc = "expected"]
    /\ UNCHANGED <<progress, hist, remote, result>>

update_expected(c) ==
    /\ call[c].pc = "expected"
    /\ tasks' = TaskSetExpected(tasks, call[c].task, call[c].work_expected)
    /\ call' = [call EXCEPT ![c].pc = "notify"]
    /\ UNCHANGED <<progress, hist, remote, result>>

\* self.progress._update(self) under the lock, and the call returns
update_notify(c) ==
    /\ call[c].pc = "notify"
    /\ LET t == call[c].task
           p == tasks[t].progress
       IN  /\ progress' = [progress EXCEPT ![p] = _update(progress, tasks, p, t)]
           /\ hist' = HistUpdate(hist, t, call[c].delta)
    /\ call' = [call EXCEPT ![c] = IdleCall]
    /\ UNCHANGED <<tasks, remote, result>>

\* Progress.start
progress_start(c, p) ==
    /\ Idle(c)
    /\ progress' = [progress EXCEPT ![p]._progress_bar =
                      IF @.present THEN [@ EXCEPT !.started = TRUE] ELSE @]
    /\ UNCHANGED <<tasks, call, hist, remote>>
    /\ Cleared(c)

\* Progress.stop: task.cancel() for each task of a copy of the active list,
\* then the renderer is stopped; all under the (re-entrant) lock.
RECURSIVE CancelAllAsCompleted(_, _, _)
CancelAllAsCompleted(ps, ts, todo) ==
    IF todo = <<>> THEN ps
    ELSE CancelAllAsCompleted(
             StopTask(ps, ts, Head(todo), FALSE, ts[Head(todo)].transient), ts, Tail(todo))

CancelFirst(ps, ts, todo) ==
    IF todo = <<>> THEN ps
    ELSE StopTask(ps, ts, Head(todo), TRUE, ts[Head(todo)].transient)
RECURSIVE CancelAll(_, _, _)
CancelAll(ps, ts, todo) ==
    IF todo = <<>> THEN ps
    ELSE CancelAll(StopTask(ps, ts, Head(todo), TRUE, ts[Head(todo)].transient),
                   ts, Tail(todo))

RECURSIVE HistCancelAll(_, _, _)
HistCancelAll(h, ts, todo) ==
    IF todo = <<>> THEN h
    ELSE HistCancelAll(HistStop(h, ts, Head(todo), TRUE), ts, Tail(todo))

progress_stop(c, p) ==
    /\ Idle(c)
    /\ LET ps1 == CancelAll(progress[p], tasks, progress[p].active_tasks)
       IN  progress' = [progress EXCEPT ![p] =
                          [ps1 EXCEPT !._progress_bar =
                              IF @.present THEN [@ EXCEPT !.started = FALSE] ELSE @]]
    /\ hist' = HistCancelAll(hist, tasks, progress[p].active_tasks)
    /\ UNCHANGED <<tasks, call, remote>>
    /\ Cleared(c)

(***************************************************************************)
(* ProxyServer.__init__: the tables are empty.  `uuids` counts the ids     *)
(* drawn so far: uuid.uuid4() is taken never to return a value twice.      *)
(***************************************************************************)
\* ParameterSingletonMeta._lock and _instances, the cache of ProxyClient, and
\* what was constructed so far: ProxyServer.__init__ runs (each binds an
\* endpoint and starts a serving thread) and _ProxyClient.__init__ runs (each
\* opens a connection; the pair it was made for, in order).
NewModule == [_lock |-> None, _instances |-> <<>>, servers |-> 0,
              cache |-> <<>>, clients |-> <<>>]

NewServer == [_processes |-> <<>>, _tasks |-> <<>>, uuids |-> 0]


(***************************************************************************)
(* Python dicts as functions on their keys.                                *)
(***************************************************************************)
InKeys(d, x) == x \in DOMAIN d
\* x in d.values()
InValues(d, x) == \E k \in DOMAIN d : d[k] = x
\* d[k] = v
DictSet(d, k, v) == [j \in DOMAIN d \cup {k} |-> IF j = k THEN v ELSE d[j]]
\* d.pop(k, None)
DictPopItem(d, k) ==
    IF DOMAIN d = {} THEN d
    ELSE [j \in DOMAIN d \ {CHOOSE m \in DOMAIN d : \A i \in DOMAIN d : i <= m} |-> d[j]]
DictPop(d, k) == [j \in DOMAIN d \ {k} |-> d[j]]

(***************************************************************************)
(* ProxyServer: register_*, unregister_*, _lookup_*, each under its lock.  *)
(***************************************************************************)
ReusedId(srv) == Cardinality(DOMAIN srv._processes \cup DOMAIN srv._tasks) + 1
\* uuid.uuid4().int: an id that was never handed out
FreshId(srv) == srv.uuids + 1

Register(c, table, name, typeid, obj) ==
    /\ Idle(c)
    /\ IF InValues(server[table], obj)
       THEN /\ result' = [result EXCEPT ![c] = Returned(name, obj, "ValueError", 0)]
            /\ UNCHANGED <<server, issued>>
       ELSE LET id == FreshId(server) IN
            /\ server' = [server EXCEPT ![table] = DictSet(@, id, obj), !.uuids = id]
            /\ result' = [result EXCEPT ![c] = Returned(name, obj, "id", id)]
            /\ issued' = DictSet(issued, id, [typeid |-> typeid, object |-> obj])
    /\ UNCHANGED <<progress, tasks, call, proxies, module, hist>>

register_progress(c, p) == Register(c, "_processes", "register_progress", "Progress", p)
register_task(c, t) == Register(c, "_tasks", "register_task", "Task", t)

Unregister(c, table, id) ==
    /\ Idle(c)
    /\ server' = [server EXCEPT ![table] = DictPop(@, id)]
    /\ Cleared(c)
    /\ UNCHANGED <<progress, tasks, call, proxies, module, hist, issued>>

unregister_progress(c, id) == Unregister(c, "_processes", id)
unregister_task(c, id) == Unregister(c, "_tasks", id)

LookupFirstEntry(table, id) ==
    IF id \in DOMAIN table
    THEN [kind |-> "object",
          val |-> table[CHOOSE k \in DOMAIN table : \A j \in DOMAIN table : k <= j],
          note |-> None]
    ELSE [kind |-> "KeyError", val |-> 0, note |-> None]
\* self._processes[progress_id] / self._tasks[task_id]
Lookup(table, id) ==
    IF id \in DOMAIN table THEN [kind |-> "object", val |-> table[id], note |-> None]
    ELSE [kind |-> "KeyError", val |-> 0, note |-> None]

\* e.add_note(f"self._tasks.keys(): {list(self._tasks.keys())}")
AddNote(found, table) ==
    IF found.kind = "KeyError" THEN [found EXCEPT !.note = Some(DOMAIN table)] ELSE found

_lookup_progress(id) == Lookup(server._processes, id)
_lookup_task(id) == AddNote(Lookup(server._tasks, id), server._tasks)

\* server._lookup_progress(id) / server._lookup_task(id) called in the owning
\* process
Resolve(c, name, found, id) ==
    /\ Idle(c)
    /\ result' = [result EXCEPT ![c] =
                    IF found.kind = "object" THEN Returned(name, id, "object", found.val)
                    ELSE Raised(name, id, found.kind, found.note)]
    /\ UNCHANGED <<progress, tasks, call, server, proxies, module, hist, issued>>

resolve_progress(c, id) == Resolve(c, "_lookup_progress", _lookup_progress(id), id)
resolve_task(c, id) == Resolve(c, "_lookup_task", _lookup_task(id), id)

(***************************************************************************)
(* _ProxyClient.lookup_task / lookup_progress: the manager calls the       *)
(* registered callable, _lookup_task or _lookup_progress, and hands out a  *)
(* stand-in that refers to the object it returned; an exception comes     *)
(* back to the client as a RemoteError that holds the formatted traceback, *)
(* notes included.                                                         *)
(***************************************************************************)
ClientLookup(c, name, typeid, found, id) ==
    /\ Idle(c)
    /\ IF found.kind = "object"
       THEN /\ proxies' = Append(proxies, [typeid |-> typeid, target |-> found.val, id |-> id])
            /\ result' = [result EXCEPT ![c] = Returned(name, id, "proxy", Len(proxies) + 1)]
       ELSE /\ result' = [result EXCEPT ![c] = Raised(name, id, "RemoteError", found.note)]
            /\ UNCHANGED proxies
    /\ UNCHANGED <<progress, tasks, call, server, module, hist, issued>>

lookup_progress(c, id) == ClientLookup(c, "lookup_progress", "Progress", _lookup_progress(id), id)
lookup_task(c, id) == ClientLookup(c, "lookup_task", "Task", _lookup_task(id), id)

TaskProxies == {x \in 1..Len(proxies) : proxies[x].typeid = "Task"}
ProgressProxies == {x \in 1..Len(proxies) : proxies[x].typeid = "Progress"}

(***************************************************************************)
(* TaskProxy: each method is self._callmethod(<name>, ...), a synchronous  *)
(* call of the same method of the object the stand-in refers to.           *)
(***************************************************************************)
proxy_start(c, x) == start(c, proxies[x].target)
proxy_stop(c, x, cancelled) == stop(c, proxies[x].target, cancelled)
proxy_cancel(c, x) == stop(c, proxies[x].target, TRUE)
proxy_update(c, x, delta, work_expected_arg) ==
    update(c, proxies[x].target, delta, work_expected_arg)

(***************************************************************************)
(* TaskProxy.work_completed / work_expected: self._callmethod of           *)
(* "_get_work_completed" / "_get_work_expected".  The manager's server     *)
(* looks the method up on the Task with getattr; an attribute the Task     *)
(* does not have makes the call fail, and the client gets a RemoteError.   *)
(***************************************************************************)
\* what class Task defines and Task.__init__ sets
TaskAttributes ==
    {"__init__", "__enter__", "__exit__", "update", "start", "cancel", "stop",
     "range", "enumerate", "__reduce__",
     "progress", "work_expected", "progress_bar_task_id", "transient", "work_completed"}

\* TaskProxy._exposed_
TaskProxyExposed ==
    {"start", "stop", "cancel", "update", "_get_work_expected", "_get_work_completed"}

ProxyGet(c, x, name, methodname) ==
    /\ Idle(c)
    /\ result' = [result EXCEPT ![c] =
                    IF methodname \in TaskProxyExposed /\ methodname \in TaskAttributes
                    THEN Returned(name, x, "called", 0)
                    ELSE Raised(name, x, "RemoteError", None)]
    /\ UNCHANGED <<progress, tasks, call, server, proxies, module, hist, issued>>

proxy_work_completed(c, x) == ProxyGet(c, x, "work_completed", "_get_work_completed")
proxy_work_expected(c, x) == ProxyGet(c, x, "work_expected", "_get_work_expected")

(***************************************************************************)
(* Task.__reduce__ / Progress.__reduce__: the body is `...`, so the call   *)
(* returns None and does nothing else.                                     *)
(***************************************************************************)
Reduce(c, name, obj) ==
    /\ Idle(c)
    /\ result' = [result EXCEPT ![c] = Returned(name, obj, "None", 0)]
    /\ UNCHANGED <<progress, tasks, call, server, proxies, module, hist, issued>>

task_reduce(c, t) == Reduce(c, "Task.__reduce__", t)
progress_reduce(c, p) == Reduce(c, "Progress.__reduce__", p)

(***************************************************************************)
(* ProgressProxy.add_task: Progress.add_task runs in the owning process;   *)
(* its return value, a Task, is then pickled for the reply, which fails    *)
(* (Task.__reduce__ returns None), and the client gets the error.          *)
(***************************************************************************)
proxy_add_task(c, x, work_expected_arg, labelled, transient) ==
    /\ Idle(c)
    /\ LET p == proxies[x].target
           ps == progress[p]
           with_row == ps._progress_bar.present /\ labelled
           bar1 == IF with_row THEN BarAddTask(ps._progress_bar, work_expected_arg)
                   ELSE ps._progress_bar
           row == IF with_row THEN Some(Len(bar1.rows)) ELSE None
           t == Len(tasks) + 1
       IN  /\ tasks' = Append(tasks, NewTask(p, work_expected_arg, row, transient))
           /\ progress' = [progress EXCEPT ![p] =
                             [ps EXCEPT !._progress_bar = bar1,
                                        !.active_tasks = Append(@, t)]]
           /\ hist' = Append(hist, NewHist)
    /\ result' = [result EXCEPT ![c] = Returned("ProgressProxy.add_task", x, "RemoteError", 0)]
    /\ UNCHANGED <<call, server, proxies, module, issued>>

\* The state once the Progress objects `pr` are built and the threads `cs`
\* are about to run the programs `sc`.
Built(pr, cs, sc) ==
    /\ progress = pr
    /\ tasks = <<>>
    /\ hist = <<>>
    /\ call = [c \in cs |-> IdleCall]
    /\ script = sc
    /\ server = NewServer
    /\ proxies = <<>>
    /\ result = [c \in cs |-> NoResult]
    /\ module = NewModule
    /\ issued = <<>>
    /\ sent = <<>>

RECURSIVE AllCompletedSum(_)
AllCompletedSum(ts) ==
    IF ts = <<>> THEN 0 ELSE Head(ts).work_completed + AllCompletedSum(Tail(ts))

UpdateInBounds(delta, bound) ==
    delta # None => AllCompletedSum(tasks) + Val(delta) <= bound

(***************************************************************************)
(* Spec: one Progress with an integer n_tasks and no renderer, used by one *)
(* thread.                                                                 *)
(***************************************************************************)
NTasksArgs == {1, 3, 10}
WorkExpectedArgs == {None, Some(1), Some(15)}
\* (delta, work_expected) of the Task.update calls
UpdateArgs ==
    {<<None, None>>, <<Some(1), None>>, <<Some(2), None>>,
     <<None, Some(1)>>, <<None, Some(15)>>, <<Some(1), Some(15)>>}

Init ==
    \E n \in NTasksArgs :
        Built([p \in {1} |-> NewProgress(IntCount(n), FALSE, FALSE)],
              {1}, [c \in {1} |-> <<>>])

Next ==
    \/ \E c \in Callers, p \in Progresses, we \in WorkExpectedArgs :
          Len(tasks) < MaxTasks /\ add_task(c, p, we, FALSE, TRUE) /\ UNCHANGED books
    \/ \E c \in Callers, t \in TaskIds : start(c, t) /\ UNCHANGED books
    \/ \E c \in Callers, t \in TaskIds, cancelled \in BOOLEAN :
          stop(c, t, cancelled) /\ UNCHANGED books
    \/ \E c \in Callers, t \in TaskIds, a \in UpdateArgs :
          UpdateInBounds(a[1], MaxWork) /\ update(c, t, a[1], a[2]) /\ UNCHANGED books
    \/ \E c \in Callers, p \in Progresses : progress_start(c, p) /\ UNCHANGED books
    \/ \E c \in Callers, p \in Progresses : progress_stop(c, p) /\ UNCHANGED books

Spec == Init /\ [][Next]_vars

(***************************************************************************)
(* SpecNested: three Progresses, each the n_tasks of the next one (as in   *)
(* the demonstration: projects, files, bytes), used by one thread.  The    *)
(* thread updates and stops a task while it holds it, that is until its    *)
(* first stop.  Tasks are numbered from the outermost Progress inwards:    *)
(* which index a Task object gets makes no difference to a Progress.       *)
(***************************************************************************)
NestedNTasksArgs == {1, 3}
NestedWorkExpectedArgs == {None, Some(2)}
NestedUpdateArgs == {<<Some(1), None>>, <<None, Some(2)>>}

InitNested ==
    \E n \in NestedNTasksArgs :
        Built([p \in {1, 2, 3} |->
                 NewProgress(IF p = 1 THEN IntCount(n) ELSE ProgressCount(p - 1),
                             FALSE, FALSE)],
              {1}, [c \in {1} |-> <<>>])

Held(t) == hist[t].first_stop = "none"

NextNested ==
    \/ \E c \in Callers, p \in Progresses, we \in NestedWorkExpectedArgs :
          /\ Len(tasks) < MaxNestedTasks
          /\ \A t \in TaskIds : tasks[t].progress >= p
          /\ add_task(c, p, we, FALSE, TRUE)
          /\ UNCHANGED books
    \/ \E c \in Callers, t \in TaskIds, cancelled \in BOOLEAN :
          Held(t) /\ stop(c, t, cancelled) /\ UNCHANGED books
    \/ \E c \in Callers, t \in TaskIds, a \in NestedUpdateArgs :
          /\ Held(t)
          /\ UpdateInBounds(a[1], MaxNestedWork)
          /\ update(c, t, a[1], a[2])
          /\ UNCHANGED books
    \/ \E c \in Callers, p \in Progresses : progress_stop(c, p) /\ UNCHANGED books

SpecNested == InitNested /\ [][NextNested]_vars

(***************************************************************************)
(* SpecWorkers: test_multiprocessing.  The main thread (caller 0) builds   *)
(* Progress(NWorkers) and adds one task per worker; worker w is handed     *)
(* task w and runs `with task: for _ in task.range(NUpdates): ...`, that   *)
(* is start, NUpdates times update(1), stop.  A worker's calls run in a    *)
(* thread of the owning process that serves it; the threads interleave at  *)
(* every step of Task.update and at every call made under the lock.        *)
(***************************************************************************)
RECURSIVE Repeat(_, _)
Repeat(x, n) == IF n = 0 THEN <<>> ELSE <<x>> \o Repeat(x, n - 1)

MainProgram == Repeat("add_task", NWorkers)
WorkerProgram == <<"start">> \o Repeat("update", NUpdates) \o <<"stop">>

InitWorkers ==
    Built([p \in {1} |-> NewProgress(IntCount(NWorkers), FALSE, FALSE)],
          0..NWorkers,
          [c \in 0..NWorkers |-> IF c = 0 THEN MainProgram ELSE WorkerProgram])

\* Caller c is about to make the call `op` of its program.
AtCall(c, op) == script[c] # <<>> /\ Head(script[c]) = op
Advance(c) == script' = [script EXCEPT ![c] = Tail(@)] /\ UNCHANGED sent
\* Worker c was handed its task.
Handed(c) == c \in TaskIds

NextWorkers ==
    \/ \E c \in Callers :
          AtCall(c, "add_task") /\ add_task(c, 1, Some(NUpdates), FALSE, TRUE) /\ Advance(c)
    \/ \E c \in Callers :
          AtCall(c, "start") /\ Handed(c) /\ start(c, c) /\ Advance(c)
    \/ \E c \in Callers :
          AtCall(c, "update") /\ update_enter(c, c, Some(1), None) /\ Advance(c)
    \/ \E c \in Callers : update_add(c) /\ UNCHANGED books
    \/ \E c \in Callers : update_expected(c) /\ UNCHANGED books
    \/ \E c \in Callers : update_notify(c) /\ UNCHANGED books
    \/ \E c \in Callers :
          AtCall(c, "stop") /\ stop(c, c, FALSE) /\ Advance(c)

SpecWorkers == InitWorkers /\ [][NextWorkers]_vars

(***************************************************************************)
(* SpecProxy: one process owns a Progress and its ProxyServer; it          *)
(* registers objects and a client looks ids up and works through the       *)
(* stand-ins it gets.  Every call is synchronous, and the calls are made   *)
(* one after the other.  `sent` books, for the Task an id was issued for,  *)
(* what was sent through the stand-ins looked up under that id.  The tasks *)
(* get their first id in the order they were added, a stand-in stops a     *)
(* Task that nobody stopped before, and updates carry a delta only.        *)
(***************************************************************************)
ProxyUpdateArgs == {<<Some(1), None>>}

NewSent == [delta_sum |-> 0, first_stop |-> "none", first_stop_work |-> 0]

\* register_* once returned an id for the object.
Issued(typeid, obj) ==
    \E id \in DOMAIN issued : issued[id] = [typeid |-> typeid, object |-> obj]

\* The object the id of stand-in x was issued for.
Owner(x) == issued[proxies[x].id].object

SentUpdate(x, delta) ==
    sent' = IF delta # None THEN [sent EXCEPT ![Owner(x)].delta_sum = @ + Val(delta)]
            ELSE sent

SentStopOne(sn, t, cancelled) ==
    IF sn[t].first_stop # "none" THEN sn
    ELSE [sn EXCEPT ![t].first_stop = IF cancelled THEN "cancelled" ELSE "completed",
                    ![t].first_stop_work = IF cancelled THEN 0 ELSE sn[t].delta_sum]

SentStop(x, cancelled) == sent' = SentStopOne(sent, Owner(x), cancelled)

\* Progress.stop in the owning process cancels what is still active.
SentCancelAll(p) ==
    sent' = [t \in DOMAIN sent |->
                IF tasks[t].progress = p THEN SentStopOne(sent, t, TRUE)[t] ELSE sent[t]]

InitProxy ==
    Built([p \in {1} |-> NewProgress(IntCount(MaxProxyTasks), FALSE, FALSE)],
          {1}, [c \in {1} |-> <<>>])

NextProxy ==
    \/ \E c \in Callers, p \in Progresses :
          /\ Len(tasks) < MaxProxyTasks
          /\ add_task(c, p, None, FALSE, TRUE)
          /\ sent' = Append(sent, NewSent) /\ UNCHANGED script
    \/ \E c \in Callers, t \in TaskIds :
          /\ server.uuids < MaxIds
          /\ \A u \in 1..(t - 1) : Issued("Task", u)
          /\ register_task(c, t) /\ UNCHANGED books
    \/ \E c \in Callers, p \in Progresses :
          server.uuids < MaxIds /\ register_progress(c, p) /\ UNCHANGED books
    \/ \E c \in Callers, id \in 1..MaxIds : unregister_task(c, id) /\ UNCHANGED books
    \/ \E c \in Callers, id \in 1..MaxIds : unregister_progress(c, id) /\ UNCHANGED books
    \/ \E c \in Callers, id \in 1..MaxIds :
          Len(proxies) < MaxProxies /\ lookup_task(c, id) /\ UNCHANGED books
    \/ \E c \in Callers, id \in 1..MaxIds :
          Len(proxies) < MaxProxies /\ lookup_progress(c, id) /\ UNCHANGED books
    \/ \E c \in Callers, x \in TaskProxies : proxy_start(c, x) /\ UNCHANGED books
    \/ \E c \in Callers, x \in TaskProxies, cancelled \in BOOLEAN :
          /\ Held(proxies[x].target)
          /\ proxy_stop(c, x, cancelled)
          /\ SentStop(x, cancelled) /\ UNCHANGED script
    \/ \E c \in Callers, x \in TaskProxies :
          /\ Held(proxies[x].target)
          /\ proxy_cancel(c, x)
          /\ SentStop(x, TRUE) /\ UNCHANGED script
    \/ \E c \in Callers, x \in TaskProxies, a \in ProxyUpdateArgs :
          /\ UpdateInBounds(a[1], MaxProxyWork)
          /\ proxy_update(c, x, a[1], a[2])
          /\ SentUpdate(x, a[1]) /\ UNCHANGED script
    \/ \E c \in Callers, x \in ProgressProxies :
          /\ Len(tasks) < MaxProxyTasks
          /\ proxy_add_task(c, x, None, FALSE, TRUE)
          /\ sent' = Append(sent, NewSent) /\ UNCHANGED script
    \/ \E c \in Callers, t \in TaskIds : task_reduce(c, t) /\ UNCHANGED books
    \/ \E c \in Callers, p \in Progresses : progress_reduce(c, p) /\ UNCHANGED books
    \/ \E c \in Callers, p \in Progresses :
          progress_stop(c, p) /\ SentCancelAll(p) /\ UNCHANGED script

SpecProxy == InitProxy /\ [][NextProxy]_vars

(***************************************************************************)
(* with blocks.  Task.__enter__/__exit__ and TaskProxy.__enter__/__exit__. *)
(* `raised` says that the block was left by an exception (exc_type is not  *)
(* None).                                                                  *)
(***************************************************************************)
task_enter(c, t) == start(c, t)
task_exit(c, t, raised) == stop(c, t, raised)
proxy_enter(c, x) == proxy_start(c, x)
\* TaskProxy.__exit__ is self.stop(), whatever exc_type is
proxy_exit(c, x, raised) == proxy_stop(c, x, FALSE)

(***************************************************************************)
(* SpecScope: the main thread adds two tasks and registers the second one; *)
(* one worker runs `with task:` on the first Task, the other looks the     *)
(* second one up and runs `with task:` on the stand-in.  Inside the block  *)
(* a worker makes NUpdates update(1) calls; an exception may end the block *)
(* at any point.  After its block the remote worker reads work_completed   *)
(* and work_expected from the stand-in.  `sent` books the deltas and how   *)
(* each block was left.                                                    *)
(***************************************************************************)
ScopeProgram ==
    [c \in {"main", "local", "remote"} |->
        CASE c = "main" -> <<"add_task", "add_task", "register_task">>
          [] c = "local" -> <<"enter">> \o Repeat("update", NUpdates) \o <<"exit">>
          [] c = "remote" -> <<"lookup_task", "enter">> \o Repeat("update", NUpdates)
                                \o <<"exit", "work_completed", "work_expected">>]

InitScope ==
    Built([p \in {1} |-> NewProgress(IntCount(2), FALSE, FALSE)],
          {"main", "local", "remote"}, ScopeProgram)

Proceed(c) == script' = [script EXCEPT ![c] = Tail(@)]
Abort(c) == script' = [script EXCEPT ![c] = <<>>]
\* Caller c is inside its with block.
Inside(c) == script[c] # <<>> /\ Head(script[c]) \in {"update", "exit"}

SentDelta(t, delta) == sent' = [sent EXCEPT ![t].delta_sum = @ + delta]
SentLeft(t, raised) == sent' = SentStopOne(sent, t, raised)

NextScope ==
    \/ AtCall("main", "add_task") /\ add_task("main", 1, None, FALSE, TRUE)
          /\ sent' = Append(sent, NewSent) /\ Proceed("main")
    \/ AtCall("main", "register_task") /\ register_task("main", 2) /\ Advance("main")
    \/ AtCall("remote", "lookup_task") /\ 1 \in DOMAIN server._tasks
          /\ lookup_task("remote", 1) /\ Advance("remote")
    \/ AtCall("local", "enter") /\ 1 \in TaskIds
          /\ task_enter("local", 1) /\ Advance("local")
    \/ AtCall("remote", "enter") /\ proxy_enter("remote", 1) /\ Advance("remote")
    \/ AtCall("local", "update") /\ update("local", 1, Some(1), None)
          /\ SentDelta(1, 1) /\ Proceed("local")
    \/ AtCall("remote", "update") /\ proxy_update("remote", 1, Some(1), None)
          /\ SentDelta(Owner(1), 1) /\ Proceed("remote")
    \/ AtCall("local", "exit") /\ task_exit("local", 1, FALSE)
          /\ SentLeft(1, FALSE) /\ Proceed("local")
    \/ AtCall("remote", "exit") /\ proxy_exit("remote", 1, FALSE)
          /\ SentLeft(Owner(1), FALSE) /\ Proceed("remote")
    \/ AtCall("remote", "work_completed") /\ proxy_work_completed("remote", 1)
          /\ Advance("remote")
    \/ AtCall("remote", "work_expected") /\ proxy_work_expected("remote", 1)
          /\ Advance("remote")
    \/ Inside("local") /\ task_exit("local", 1, TRUE)
          /\ SentLeft(1, TRUE) /\ Abort("local")
    \/ Inside("remote") /\ proxy_exit("remote", 1, TRUE)
          /\ SentLeft(Owner(1), TRUE) /\ Abort("remote")

SpecScope == InitScope /\ [][NextScope]_vars

(***************************************************************************)
(* Progress(...) as a call.  n_tasks has no default, so a call without it  *)
(* fails when the arguments are bound (TypeError); a value that is neither *)
(* an int nor a Progress is refused by __init__ (ValueError).              *)
(***************************************************************************)
Absent == [kind |-> "absent", val |-> 0]
Other == [kind |-> "other", val |-> 0]

ConstructorName(n_tasks) ==
    CASE n_tasks.kind = "absent" -> "Progress()"
      [] n_tasks.kind = "int" -> "Progress(int)"
      [] n_tasks.kind = "progress" -> "Progress(Progress)"
      [] OTHER -> "Progress(other)"

progress_init(c, n_tasks) ==
    /\ Idle(c)
    /\ IF n_tasks.kind = "absent"
       THEN /\ result' = [result EXCEPT ![c] =
                            Returned(ConstructorName(n_tasks), 0, "TypeError", 0)]
            /\ UNCHANGED progress
       ELSE IF n_tasks.kind \notin {"int", "progress"}
       THEN /\ result' = [result EXCEPT ![c] =
                            Returned(ConstructorName(n_tasks), 0, "ValueError", 0)]
            /\ UNCHANGED progress
       ELSE /\ progress' = Append(progress, NewProgress(n_tasks, FALSE, FALSE))
            /\ result' = [result EXCEPT ![c] =
                            Returned(ConstructorName(n_tasks), n_tasks.val,
                                     "Progress", Len(progress) + 1)]
    /\ UNCHANGED <<tasks, call, hist, remote>>

(***************************************************************************)
(* progress.add_cancelled_task(): class Progress defines no such           *)
(* attribute, the lookup raises AttributeError and nothing is changed.     *)
(***************************************************************************)
add_cancelled_task(c, p) ==
    /\ Idle(c)
    /\ result' = [result EXCEPT ![c] =
                    Returned("add_cancelled_task", p, "AttributeError", 0)]
    /\ UNCHANGED <<progress, tasks, call, hist, remote>>

(***************************************************************************)
(* SpecUsage: one thread constructs Progresses (with and without a count,  *)
(* with an int, another Progress or something else) and uses them.         *)
(***************************************************************************)
UsageNTasksArgs ==
    {Absent, Other, IntCount(1)} \cup {ProgressCount(q) : q \in Progresses}
UsageWorkExpectedArgs == {None, Some(1)}

InitUsage == Built(<<>>, {1}, [c \in {1} |-> <<>>])

NextUsage ==
    \/ \E c \in Callers, n \in UsageNTasksArgs :
          /\ Len(progress) < MaxProgresses
          /\ progress_init(c, n) /\ UNCHANGED books
    \/ \E c \in Callers, p \in Progresses, we \in UsageWorkExpectedArgs :
          Len(tasks) < MaxTasks /\ add_task(c, p, we, FALSE, TRUE) /\ UNCHANGED books
    \/ \E c \in Callers, p \in Progresses :
          add_cancelled_task(c, p) /\ UNCHANGED books
    \/ \E c \in Callers, t \in TaskIds :
          /\ UpdateInBounds(Some(1), MaxWork)
          /\ update(c, t, Some(1), None) /\ UNCHANGED books
    \/ \E c \in Callers, t \in TaskIds, cancelled \in BOOLEAN :
          stop(c, t, cancelled) /\ UNCHANGED books

SpecUsage == InitUsage /\ [][NextUsage]_vars

(***************************************************************************)
(* SpecRegistry: the threads of the owning process register and           *)
(* unregister the Progress and its tasks in any order, while caller 2      *)
(* also stands for the manager's serving thread, which resolves ids, and   *)
(* for the client behind it.  Each ProxyServer method runs under the       *)
(* server's lock, so a call is one step.  The client looks up ids that     *)
(* have no entry (what it does with a stand-in: SpecProxy).                *)
(***************************************************************************)
InitRegistry ==
    Built([p \in {1} |-> NewProgress(IntCount(MaxProxyTasks), FALSE, FALSE)],
          {1, 2}, [c \in {1, 2} |-> <<>>])

NextRegistry ==
    \/ \E p \in Progresses :
          Len(tasks) < MaxProxyTasks /\ add_task(1, p, None, FALSE, TRUE) /\ UNCHANGED books
    \/ \E c \in Callers, t \in TaskIds :
          server.uuids < MaxIds /\ register_task(c, t) /\ UNCHANGED books
    \/ \E c \in Callers, p \in Progresses :
          server.uuids < MaxIds /\ register_progress(c, p) /\ UNCHANGED books
    \/ \E c \in Callers, id \in 1..MaxIds : unregister_task(c, id) /\ UNCHANGED books
    \/ \E c \in Callers, id \in 1..MaxIds : unregister_progress(c, id) /\ UNCHANGED books
    \/ \E id \in 1..MaxIds : resolve_task(2, id) /\ UNCHANGED books
    \/ \E id \in 1..MaxIds : resolve_progress(2, id) /\ UNCHANGED books
    \/ \E id \in 1..MaxIds :
          id \notin DOMAIN server._tasks /\ lookup_task(2, id) /\ UNCHANGED books
    \/ \E id \in 1..MaxIds :
          id \notin DOMAIN server._processes /\ lookup_progress(2, id) /\ UNCHANGED books

SpecRegistry == InitRegistry /\ [][NextRegistry]_vars

(***************************************************************************)
(* ProxyServer(): ParameterSingletonMeta.__call__.  The whole body runs    *)
(* under the class-level lock: the key is looked up in _instances and the  *)
(* instance is constructed and stored when the key is missing.  The key of *)
(* ProxyServer() is always the same, (cls, ()).                            *)
(***************************************************************************)
LockIgnored(m) == TRUE
\* with cls._lock: the lock can be taken
LockFree(m) == m._lock = None

\* with cls._lock: entered
meta_enter(c) ==
    /\ Idle(c)
    /\ LockFree(module)
    /\ module' = [module EXCEPT !._lock = Some(c)]
    /\ call' = [call EXCEPT ![c] = [IdleCall EXCEPT !.pc = "meta", !.key = "ProxyServer"]]
    /\ Cleared(c)
    /\ UNCHANGED <<progress, tasks, server, proxies, hist, issued>>

\* try: return cls._instances[key]  except KeyError: pass
meta_lookup(c) ==
    /\ call[c].pc = "meta"
    /\ IF call[c].key \in DOMAIN module._instances
       THEN /\ result' = [result EXCEPT ![c] =
                            Returned("ProxyServer", 0, "instance",
                                     module._instances[call[c].key])]
            /\ module' = [module EXCEPT !._lock = None]
            /\ call' = [call EXCEPT ![c] = IdleCall]
       ELSE /\ call' = [call EXCEPT ![c].pc = "meta_new"]
            /\ UNCHANGED <<result, module>>
    /\ UNCHANGED <<progress, tasks, server, proxies, hist, issued>>

\* instance = cls._instances[key] = super().__call__(...); return instance
meta_new(c) ==
    /\ call[c].pc = "meta_new"
    /\ LET instance == module.servers + 1 IN
       /\ module' = [module EXCEPT !.servers = instance,
                                   !._instances = DictSet(@, call[c].key, instance),
                                   !._lock = None]
       /\ result' = [result EXCEPT ![c] = Returned("ProxyServer", 0, "instance", instance)]
    /\ call' = [call EXCEPT ![c] = IdleCall]
    /\ UNCHANGED <<progress, tasks, server, proxies, hist, issued>>

(***************************************************************************)
(* ProxyClient(address, authkey): a function under functools.cache.  The   *)
(* cache is looked up; on a miss the function body, _ProxyClient(address,  *)
(* authkey), runs outside any lock and what it returns is stored under the *)
(* key and returned.  `key` stands for the pair (address, authkey).        *)
(***************************************************************************)
client_call(c, key) ==
    /\ Idle(c)
    /\ IF key \in DOMAIN module.cache
       THEN /\ result' = [result EXCEPT ![c] =
                            Returned("ProxyClient", key, "client", module.cache[key])]
            /\ UNCHANGED call
       ELSE /\ call' = [call EXCEPT ![c] = [IdleCall EXCEPT !.pc = "client_new", !.key = key]]
            /\ Cleared(c)
    /\ UNCHANGED <<progress, tasks, server, proxies, module, hist, issued>>

\* _ProxyClient.__init__ connects; the new object is cached and returned
client_new(c) ==
    /\ call[c].pc = "client_new"
    /\ LET client == Len(module.clients) + 1 IN
       /\ module' = [module EXCEPT !.clients = Append(@, call[c].key),
                                   !.cache = DictSet(@, call[c].key, client)]
       /\ result' = [result EXCEPT ![c] = Returned("ProxyClient", call[c].key, "client", client)]
    /\ call' = [call EXCEPT ![c] = IdleCall]
    /\ UNCHANGED <<progress, tasks, server, proxies, hist, issued>>

(***************************************************************************)
(* SpecSingleton: NThreads threads of one process call ProxyServer() and   *)
(* ProxyClient(address, authkey), for two pairs, at any time.              *)
(***************************************************************************)
Pairs == {"pair1", "pair2"}

InitSingleton ==
    Built([p \in {1} |-> NewProgress(IntCount(1), FALSE, FALSE)],
          1..NThreads, [c \in 1..NThreads |-> <<>>])

NextSingleton ==
    \/ \E c \in Callers : meta_enter(c) /\ UNCHANGED books
    \/ \E c \in Callers : meta_lookup(c) /\ UNCHANGED books
    \/ \E c \in Callers : meta_new(c) /\ UNCHANGED books
    \/ \E c \in Callers, key \in Pairs : client_call(c, key) /\ UNCHANGED books
    \/ \E c \in Callers : client_new(c) /\ UNCHANGED books

SpecSingleton == InitSingleton /\ [][NextSingleton]_vars

(***************************************************************************)
(* SpecRace: NThreads threads (for instance the manager's threads that     *)
(* serve different stand-ins of one Task) call update(1) and stop on the   *)
(* tasks of one Progress.  Task.update takes no lock for its read and      *)
(* write of work_completed, so its steps interleave with the other         *)
(* threads' calls; only _update and _stop_task run under the Progress's    *)
(* lock.  An update is started on a Task that is active.  `sent` books the *)
(* deltas of the calls made.                                               *)
(***************************************************************************)
InitRace ==
    Built([p \in {1} |-> NewProgress(IntCount(1), FALSE, FALSE)],
          1..NThreads, [c \in 1..NThreads |-> <<>>])

RECURSIVE SentSum(_)
SentSum(sn) == IF sn = <<>> THEN 0 ELSE Head(sn).delta_sum + SentSum(Tail(sn))

NextRace ==
    \/ \E c \in Callers, p \in Progresses :
          /\ Len(tasks) < MaxTasks
          /\ add_task(c, p, None, FALSE, TRUE)
          /\ sent' = Append(sent, NewSent) /\ UNCHANGED script
    \/ \E c \in Callers, t \in TaskIds :
          /\ Held(t)
          /\ SentSum(sent) < MaxWork
          /\ update_enter(c, t, Some(1), None)
          /\ SentDelta(t, 1) /\ UNCHANGED script
    \/ \E c \in Callers : update_add(c) /\ UNCHANGED books
    \/ \E c \in Callers : update_expected(c) /\ UNCHANGED books
    \/ \E c \in Callers : update_notify(c) /\ UNCHANGED books
    \/ \E c \in Callers, t \in TaskIds, cancelled \in BOOLEAN :
          Held(t) /\ stop(c, t, cancelled) /\ UNCHANGED books

SpecRace == InitRace /\ [][NextRace]_vars

(***************************************************************************)
(* SpecStop: one thread ("user") adds tasks to a Progress and updates,     *)
(* stops and cancels them, at any time; the thread that owns the Progress  *)
(* ("owner") leaves its `with progress:` block, which is Progress.stop(),  *)
(* and then calls stop() once more.  Task.update runs step by step, the    *)
(* other calls under the Progress's lock; tasks are added with the default *)
(* work_expected.  `sent` books, per Task, the                             *)
(* deltas of the update calls made and who took it from the active list    *)
(* first: a stop or cancel call of the user, or Progress.stop ("forced").  *)
(***************************************************************************)
\* add_task(): work_expected has the default 1
DefaultWorkExpected == Some(1)

InitStop ==
    Built([p \in {1} |-> NewProgress(IntCount(MaxTasks), FALSE, FALSE)],
          {"user", "owner"},
          [c \in {"user", "owner"} |->
              IF c = "owner" THEN <<"Progress.stop", "Progress.stop">> ELSE <<>>])

\* Progress.stop took from the active list what no stop call had taken before.
SentForced(p) ==
    sent' = [t \in DOMAIN sent |->
                IF tasks[t].progress = p /\ sent[t].first_stop = "none"
                THEN [sent[t] EXCEPT !.first_stop = "forced"] ELSE sent[t]]

NextStop ==
    \/ \E p \in Progresses :
          /\ Len(tasks) < MaxTasks
          /\ add_task("user", p, DefaultWorkExpected, FALSE, TRUE)
          /\ sent' = Append(sent, NewSent) /\ UNCHANGED script
    \/ \E t \in TaskIds :
          /\ SentSum(sent) < MaxWork
          /\ update_enter("user", t, Some(1), None)
          /\ SentDelta(t, 1) /\ UNCHANGED script
    \/ update_add("user") /\ UNCHANGED books
    \/ update_expected("user") /\ UNCHANGED books
    \/ update_notify("user") /\ UNCHANGED books
    \/ \E t \in TaskIds : start("user", t) /\ UNCHANGED books
    \/ \E t \in TaskIds, cancelled \in BOOLEAN :
          stop("user", t, cancelled) /\ SentLeft(t, cancelled) /\ UNCHANGED script
    \/ \E p \in Progresses :
          /\ AtCall("owner", "Progress.stop")
          /\ progress_stop("owner", p)
          /\ SentForced(p) /\ Proceed("owner")

SpecStop == InitStop /\ [][NextStop]_vars

(***************************************************************************)
(* The lock of a Progress.  `with self._lock:` blocks while another thread *)
(* holds the RLock; the thread that holds it takes it again at once.       *)
(***************************************************************************)
CanAcquireOnlyFree(lk, c) == lk.owner = None
CanAcquire(lk, c) == lk.owner = None \/ lk.owner = Some(c)
Acquire(lk, c) == [owner |-> Some(c), count |-> lk.count + 1]

\* Every `with self._lock:` block of thread c was left.
ReleaseAll(pr, c) ==
    [q \in DOMAIN pr |->
        IF pr[q]._lock.owner = Some(c) THEN [pr[q] EXCEPT !._lock = NewLock] ELSE pr[q]]

(***************************************************************************)
(* The calls as the steps at which a thread can be made to wait.  A call   *)
(* starts (lock_begin), takes the lock of its Progress (lock_acquire),     *)
(* then, where the code reads self.work_expected, the lock of the Progress *)
(* again and after it the lock of each Progress down the n_tasks chain     *)
(* (lock_property); Progress.stop runs task.cancel() per active task, each *)
(* taking the lock again (lock_cancel); at last the call does its work,    *)
(* leaves its with blocks and returns (lock_return).  call[c].key is the   *)
(* method, call[c].at the Progress whose lock comes next.                  *)
(***************************************************************************)
lock_begin(c, op, p, t) ==
    /\ Idle(c)
    /\ op \in {"stop", "cancel", "update"} => t \in TaskIds /\ tasks[t].progress = p
    /\ op \notin {"stop", "cancel", "update"} => t = 0
    /\ call' = [call EXCEPT ![c] =
                  [IdleCall EXCEPT !.pc = IF op = "work_expected" THEN "property"
                                          ELSE "acquire",
                                   !.key = op, !.at = p, !.task = t]]
    /\ UNCHANGED <<progress, tasks, hist, remote, result>>

\* with self._lock: of add_task, _stop_task, _update and Progress.stop
lock_acquire(c) ==
    /\ call[c].pc = "acquire"
    /\ LET p == call[c].at
           reads == /\ call[c].key = "update"
                    /\ progress[p]._progress_bar.present
                    /\ progress[p]._overall_progress_id # None
       IN  /\ CanAcquire(progress[p]._lock, c)
           /\ progress' = [progress EXCEPT ![p]._lock = Acquire(@, c)]
           /\ call' = [call EXCEPT ![c].pc =
                         IF call[c].key = "Progress.stop" THEN "cancel"
                         ELSE IF reads THEN "property" ELSE "return"]
    /\ UNCHANGED <<tasks, hist, remote, result>>

\* Progress.work_expected: with self._lock:, then self.n_tasks.work_expected
\* when n_tasks is a Progress
lock_property(c) ==
    /\ call[c].pc = "property"
    /\ LET q == call[c].at IN
       /\ CanAcquire(progress[q]._lock, c)
       /\ progress' = [progress EXCEPT ![q]._lock = Acquire(@, c)]
       /\ call' = [call EXCEPT ![c] =
                     IF progress[q].n_tasks.kind = "progress"
                     THEN [@ EXCEPT !.at = progress[q].n_tasks.val]
                     ELSE [@ EXCEPT !.pc = "return"]]
    /\ UNCHANGED <<tasks, hist, remote, result>>

\* Progress.stop: for task in list(self.active_tasks): task.cancel(), which is
\* _stop_task under `with self._lock:`
lock_cancel(c) ==
    /\ call[c].pc = "cancel"
    /\ LET p == call[c].at
           active == progress[p].active_tasks
       IN  IF active = <<>>
           THEN /\ call' = [call EXCEPT ![c].pc = "return"]
                /\ UNCHANGED <<progress, hist>>
           ELSE /\ CanAcquire(progress[p]._lock, c)
                /\ progress' = [progress EXCEPT ![p] =
                      StopTask(@, tasks, Head(active), TRUE, tasks[Head(active)].transient)]
                /\ hist' = HistStop(hist, tasks, Head(active), TRUE)
                /\ UNCHANGED call
    /\ UNCHANGED <<tasks, remote, result>>

\* the body of the innermost with block runs, every with block is left, and
\* the call returns
lock_return(c) ==
    /\ call[c].pc = "return"
    /\ LET op == call[c].key
           p == IF op \in {"work_expected", "Progress.stop", "add_task"} THEN call[c].at
                ELSE tasks[call[c].task].progress
           t == call[c].task
           new == Len(tasks) + 1
           done ==
             CASE op = "add_task" ->
                    [progress EXCEPT ![call[c].at].active_tasks = Append(@, new)]
               [] op = "stop" ->
                    [progress EXCEPT ![p] = StopTask(@, tasks, t, FALSE, tasks[t].transient)]
               [] op = "cancel" ->
                    [progress EXCEPT ![p] = StopTask(@, tasks, t, TRUE, tasks[t].transient)]
               [] op = "update" -> [progress EXCEPT ![p] = _update(progress, tasks, p, t)]
               [] op = "Progress.stop" ->
                    [progress EXCEPT ![p]._progress_bar =
                        IF @.present THEN [@ EXCEPT !.started = FALSE] ELSE @]
               [] OTHER -> progress
       IN  /\ progress' = ReleaseAll(done, c)
           /\ tasks' = IF op = "add_task"
                       THEN Append(tasks, NewTask(call[c].at, DefaultWorkExpected, None, TRUE))
                       ELSE tasks
           /\ hist' = CASE op = "add_task" -> Append(hist, NewHist)
                        [] op = "stop" -> HistStop(hist, tasks, t, FALSE)
                        [] op = "cancel" -> HistStop(hist, tasks, t, TRUE)
                        [] OTHER -> hist
    /\ call' = [call EXCEPT ![c] = IdleCall]
    /\ UNCHANGED <<remote, result>>

(***************************************************************************)
(* SpecLocks: two threads call add_task, update, stop, cancel,             *)
(* Progress.stop and read work_expected on two Progresses, each with a     *)
(* renderer and an overall row, the first being the n_tasks of the second. *)
(* stop, cancel and update are called on tasks that are active.  A thread  *)
(* that can go on does so in the end, also when the lock it waits for is   *)
(* free only now and then.                                                 *)
(***************************************************************************)
LockThreads == {1, 2}

InitLocks ==
    Built([p \in {1, 2} |->
             NewProgress(IF p = 1 THEN IntCount(1) ELSE ProgressCount(p - 1), TRUE, TRUE)],
          LockThreads, [c \in LockThreads |-> <<>>])

\* The call of thread c in flight goes on.
Continue(c) ==
    /\ \/ lock_acquire(c)
       \/ lock_property(c)
       \/ lock_cancel(c)
       \/ lock_return(c)
    /\ UNCHANGED books

\* The threads inside an add_task call.
Adding == {c \in Callers : call[c].key = "add_task"}

NextLocks ==
    \/ \E c \in Callers, p \in Progresses :
          /\ Len(tasks) + Cardinality(Adding) < MaxLockTasks
          /\ lock_begin(c, "add_task", p, 0) /\ UNCHANGED books
    \/ \E c \in Callers, t \in TaskIds, op \in {"stop", "cancel", "update"} :
          Held(t) /\ lock_begin(c, op, tasks[t].progress, t) /\ UNCHANGED books
    \/ \E c \in Callers, p \in Progresses, op \in {"work_expected", "Progress.stop"} :
          lock_begin(c, op, p, 0) /\ UNCHANGED books
    \/ \E c \in Callers : Continue(c)

SpecLocks ==
    /\ InitLocks
    /\ [][NextLocks]_vars
    /\ \A c \in LockThreads : SF_vars(Continue(c))

(***************************************************************************)
(* SpecBar: one Progress with a renderer and an overall row, used by one   *)
(* thread: tasks with and without a description, transient or not, are     *)
(* added, started, updated while they are active, and stopped or cancelled *)
(* any number of times.  `sent` books what add_task was called with.       *)
(***************************************************************************)
BarWorkExpectedArgs == {Some(2)}
BarUpdateArgs == {<<Some(1), None>>}

InitBar ==
    Built([p \in {1} |-> NewProgress(IntCount(MaxTasks + 1), TRUE, TRUE)],
          {1}, [c \in {1} |-> <<>>])

NextBar ==
    \/ \E c \in Callers, p \in Progresses, we \in BarWorkExpectedArgs,
          labelled \in BOOLEAN, transient \in BOOLEAN :
          /\ Len(tasks) < MaxTasks
          /\ add_task(c, p, we, labelled, transient)
          /\ sent' = Append(sent, [labelled |-> labelled, transient |-> transient])
          /\ UNCHANGED script
    \/ \E c \in Callers, t \in TaskIds : Held(t) /\ start(c, t) /\ UNCHANGED books
    \/ \E c \in Callers, t \in TaskIds, a \in BarUpdateArgs :
          /\ Held(t)
          /\ UpdateInBounds(a[1], MaxWork)
          /\ update(c, t, a[1], a[2]) /\ UNCHANGED books
    \/ \E c \in Callers, t \in TaskIds, cancelled \in BOOLEAN :
          stop(c, t, cancelled) /\ UNCHANGED books

SpecBar == InitBar /\ [][NextBar]_vars

(***************************************************************************)
(* Task.range / Task.enumerate and TaskProxy.range / TaskProxy.enumerate:  *)
(* generator functions.  Calling one makes a generator and runs nothing of *)
(* its body; next() runs the body up to the next yield: resumed after a    *)
(* yield it first calls self.update(1), then takes the next element of the *)
(* iterable and yields it, or ends (StopIteration) when there is none.     *)
(* The generator a thread iterates over is kept in call[c]: call[c].at is  *)
(* how many elements it took from its iterable so far.                     *)
(***************************************************************************)
\* range(n) as the sequence of its elements
RangeOf(n) == [i \in 1..n |-> i - 1]

NewGenerator(name, t, iterable) ==
    [IdleCall EXCEPT !.pc = "created", !.key = name, !.task = t, !.iterable = iterable]

task_range(c, t, n) ==
    /\ Idle(c)
    /\ call' = [call EXCEPT ![c] = NewGenerator("range", t, RangeOf(n))]
    /\ UNCHANGED <<progress, tasks, hist, remote>>
    /\ Cleared(c)

task_enumerate(c, t, iterable) ==
    /\ Idle(c)
    /\ call' = [call EXCEPT ![c] = NewGenerator("enumerate", t, iterable)]
    /\ UNCHANGED <<progress, tasks, hist, remote>>
    /\ Cleared(c)

proxy_range(c, x, n) == task_range(c, proxies[x].target, n)
proxy_enumerate(c, x, iterable) == task_enumerate(c, proxies[x].target, iterable)

ResumeDeltaAtOnce(pc) == Some(1)
\* self.update(1) follows the yield: it runs when the generator is resumed
ResumeDelta(pc) == IF pc = "yielded" THEN Some(1) ELSE None

\* yield i / yield i, item
Yielded(name, i, item) == IF name = "range" THEN <<item>> ELSE <<i, item>>

gen_next(c) ==
    /\ call[c].pc \in {"created", "yielded"}
    /\ LET g == call[c]
           t == g.task
           p == tasks[t].progress
           delta == ResumeDelta(g.pc)
       IN  /\ tasks' = TaskAdd(tasks, t, tasks[t].work_completed, delta)
           /\ progress' = IF delta # None
                          THEN [progress EXCEPT ![p] = _update(progress, tasks', p, t)]
                          ELSE progress
           /\ hist' = HistUpdate(hist, t, delta)
           /\ IF g.at < Len(g.iterable)
              THEN /\ call' = [call EXCEPT ![c] = [g EXCEPT !.pc = "yielded", !.at = @ + 1]]
                   /\ result' = [result EXCEPT ![c] =
                         Returned(g.key, t, "item", Yielded(g.key, g.at, g.iterable[g.at + 1]))]
              ELSE /\ call' = [call EXCEPT ![c] = IdleCall]
                   /\ result' = [result EXCEPT ![c] = Raised(g.key, t, "StopIteration", None)]
    /\ UNCHANGED remote

\* the consumer leaves its loop early and drops the generator: the body ends
\* at the yield it is suspended at
gen_close(c) ==
    /\ call[c].pc \in {"created", "yielded"}
    /\ call' = [call EXCEPT ![c] = IdleCall]
    /\ UNCHANGED <<progress, tasks, hist, remote>>
    /\ Cleared(c)

(***************************************************************************)
(* SpecRange: the main thread adds two tasks and registers the second one; *)
(* a local worker iterates over task.range(n) and task.enumerate(seq) of   *)
(* the first Task, a remote worker looks the second one up and does the    *)
(* same on the stand-in, one loop after the other.  `sent` books, per      *)
(* Task, the loop that runs or ran last on it: what work_completed was     *)
(* when it began, how many elements its iterable has and how many it       *)
(* handed to the consumer.                                                 *)
(***************************************************************************)
Letters == <<"a", "b", "c", "d">>
EnumerateArgs == {SubSeq(Letters, 1, n) : n \in 0..MaxRange}

RangeProgram ==
    [c \in {"main", "local", "remote"} |->
        CASE c = "main" -> <<"add_task", "add_task", "register_task">>
          [] c = "local" -> <<>>
          [] c = "remote" -> <<"lookup_task">>]

InitRange ==
    Built([p \in {1} |-> NewProgress(IntCount(2), FALSE, FALSE)],
          {"main", "local", "remote"}, RangeProgram)

NewLoop == [base |-> 0, elements |-> 0, delivered |-> 0]
LoopBegins(t, n) ==
    sent' = [sent EXCEPT ![t] =
                [base |-> tasks[t].work_completed, elements |-> n, delivered |-> 0]]
LoopGoesOn(c) ==
    sent' = IF call'[c].pc = "yielded"
            THEN [sent EXCEPT ![call[c].task].delivered = @ + 1] ELSE sent

NextRange ==
    \/ AtCall("main", "add_task") /\ add_task("main", 1, DefaultWorkExpected, FALSE, TRUE)
          /\ sent' = Append(sent, NewLoop) /\ Proceed("main")
    \/ AtCall("main", "register_task") /\ register_task("main", 2) /\ Advance("main")
    \/ AtCall("remote", "lookup_task") /\ 1 \in DOMAIN server._tasks
          /\ lookup_task("remote", 1) /\ Advance("remote")
    \/ \E n \in 0..MaxRange :
          /\ 1 \in TaskIds /\ UpdateInBounds(Some(n), MaxWork)
          /\ task_range("local", 1, n) /\ LoopBegins(1, n) /\ UNCHANGED script
    \/ \E iterable \in EnumerateArgs :
          /\ 1 \in TaskIds /\ UpdateInBounds(Some(Len(iterable)), MaxWork)
          /\ task_enumerate("local", 1, iterable)
          /\ LoopBegins(1, Len(iterable)) /\ UNCHANGED script
    \/ \E n \in 0..MaxRange :
          /\ script["remote"] = <<>> /\ UpdateInBounds(Some(n), MaxWork)
          /\ proxy_range("remote", 1, n) /\ LoopBegins(Owner(1), n) /\ UNCHANGED script
    \/ \E iterable \in EnumerateArgs :
          /\ script["remote"] = <<>> /\ UpdateInBounds(Some(Len(iterable)), MaxWork)
          /\ proxy_enumerate("remote", 1, iterable)
          /\ LoopBegins(Owner(1), Len(iterable)) /\ UNCHANGED script
    \/ \E c \in {"local", "remote"} : gen_next(c) /\ LoopGoesOn(c) /\ UNCHANGED script
    \/ \E c \in {"local", "remote"} : gen_close(c) /\ UNCHANGED books

SpecRange == InitRange /\ [][NextRange]_vars

(***************************************************************************)
(* What the properties read: the tasks of a Progress by what was done to   *)
(* them (`hist`), not by the counters the code keeps.                      *)
(***************************************************************************)
TasksOf(p) == {t \in TaskIds : tasks[t].progress = p}
NeverStopped(p) == {t \in TasksOf(p) : hist[t].first_stop = "none"}
StoppedCompleted(p) == {t \in TasksOf(p) : hist[t].first_stop = "completed"}
StoppedCancelled(p) == {t \in TasksOf(p) : hist[t].first_stop = "cancelled"}
ActiveSet(p) == {t \in TaskIds : Contains(progress[p].active_tasks, t)}
ActiveKnown(p) == {t \in ActiveSet(p) : tasks[t].work_expected # None}

RECURSIVE SumExpected(_)
SumExpected(S) ==
    IF S = {} THEN 0
    ELSE LET t == CHOOSE x \in S : TRUE
         IN  Val(tasks[t].work_expected) + SumExpected(S \ {t})

RECURSIVE SumFirstStopWork(_)
SumFirstStopWork(S) ==
    IF S = {} THEN 0
    ELSE LET t == CHOOSE x \in S : TRUE
         IN  hist[t].first_stop_work + SumFirstStopWork(S \ {t})

\* The projection formula of the specification, for a resolved count N.
ProjectionLaw(p, N) ==
    LET knownN == progress[p].n_tasks_completed + Cardinality(ActiveKnown(p))
        knownTotal == progress[p].work_completed + SumExpected(ActiveKnown(p))
        lessCancelled == N - progress[p].n_tasks_cancelled
        effectiveN == IF lessCancelled >= knownN THEN lessCancelled ELSE knownN
    IN  IF knownN = 0 THEN None ELSE Some((knownTotal * effectiveN) \div knownN)

\* C1: with an integer n_tasks N, work_expected is unknown when
\* knownN = n_tasks_completed + #(active tasks with a known expected amount) is 0,
\* and otherwise knownTotal * max(N - n_tasks_cancelled, knownN) / knownN rounded
\* down, knownTotal = work_completed + the known expected amounts of active tasks.
C1_ProjectionLaw ==
    \A p \in Progresses :
        progress[p].n_tasks.kind = "int"
            => work_expected(p) = ProjectionLaw(p, progress[p].n_tasks.val)

\* N = 10, two active tasks whose expected amounts sum to 30, nothing completed:
\* work_expected is 150.
C1_Witness ==
    \E p \in Progresses :
        /\ progress[p].n_tasks = IntCount(10)
        /\ progress[p].n_tasks_completed = 0
        /\ progress[p].work_completed = 0
        /\ Cardinality(ActiveKnown(p)) = 2
        /\ SumExpected(ActiveKnown(p)) = 30
        /\ work_expected(p) = Some(150)

\* C2: Progress(1) with exactly one task: while the task is active, work_expected
\* is the task's current expected amount; once it stopped non-cancelled having
\* completed C, work_expected = C and work_completed = C.
C2_SingleTask ==
    \A p \in Progresses : \A t \in TaskIds :
        (progress[p].n_tasks = IntCount(1) /\ TasksOf(p) = {t})
            => /\ hist[t].first_stop = "none"
                    => work_expected(p) = tasks[t].work_expected
               /\ hist[t].first_stop = "completed"
                    => /\ work_expected(p) = Some(hist[t].first_stop_work)
                       /\ progress[p].work_completed = hist[t].first_stop_work

\* The only task of a Progress(1) stopped non-cancelled with nothing completed:
\* work_expected is 0, not unknown.
C2_Witness ==
    \E p \in Progresses : \E t \in TaskIds :
        /\ progress[p].n_tasks = IntCount(1)
        /\ TasksOf(p) = {t}
        /\ hist[t].first_stop = "completed"
        /\ hist[t].first_stop_work = 0
        /\ tasks[t].work_expected = Some(15)
        /\ work_expected(p) = Some(0)

Counters(p) ==
    <<progress[p].n_tasks_completed, progress[p].n_tasks_cancelled,
      progress[p].work_completed>>

\* The Task objects with the amounts of task t replaced.
Perturbed(ts, t) == [ts EXCEPT ![t].work_expected = Some(1000), ![t].work_completed = 1000]

\* A step in which task t, and no other, gets its first stop call, as cancelled.
CancelStep(t) ==
    /\ t \in TaskIds
    /\ hist[t].first_stop = "none"
    /\ hist'[t].first_stop = "cancelled"
    /\ \A u \in TaskIds \ {t} : hist'[u].first_stop = hist[u].first_stop

C3_Step ==
    /\ \A p \in Progresses : tasks' # tasks => Counters(p)' = Counters(p)
    /\ \A t \in TaskIds : CancelStep(t) =>
          LET p == tasks[t].progress IN
          /\ progress'[p].n_tasks_cancelled = progress[p].n_tasks_cancelled + 1
          /\ progress'[p].n_tasks_completed = progress[p].n_tasks_completed
          /\ progress'[p].work_completed = progress[p].work_completed
          /\ ~Contains(progress'[p].active_tasks, t)
          /\ WorkExpectedOf(progress', Perturbed(tasks', t), p)
                = WorkExpectedOf(progress', tasks', p)
          /\ TasksOf(p) = {t}
                => /\ WorkExpectedOf(progress', tasks', p) = None
                   /\ progress'[p].work_completed = 0

\* C3: add_task and update leave n_tasks_completed, n_tasks_cancelled and
\* work_completed as they are; cancelling the task then adds exactly 1 to
\* n_tasks_cancelled, leaves the other two as they are, and afterwards
\* work_expected does not depend on the task's amounts (the only task of a
\* Progress cancelled: work_expected unknown, work_completed 0).
C3_CancelExcludes == [][C3_Step]_vars

\* A task with completed work was cancelled, alone under Progress(1).
C3_Witness ==
    \E p \in Progresses : \E t \in TaskIds :
        /\ progress[p].n_tasks = IntCount(1)
        /\ TasksOf(p) = {t}
        /\ hist[t].first_stop = "cancelled"
        /\ hist[t].delta_sum = 2
        /\ tasks[t].work_completed = 2
        /\ progress[p].n_tasks_cancelled = 1
        /\ progress[p].n_tasks_completed = 0
        /\ progress[p].work_completed = 0
        /\ work_expected(p) = None

\* C4: of all stop() / cancel() calls on a task only the first changes the owner:
\* the counters count each task once, under the flag of its first stop call,
\* work_completed holds each completed task's amount once, and the active list
\* holds exactly the tasks never stopped, each once.
C4_StopOnce ==
    \A p \in Progresses :
        /\ progress[p].n_tasks_completed = Cardinality(StoppedCompleted(p))
        /\ progress[p].n_tasks_cancelled = Cardinality(StoppedCancelled(p))
        /\ progress[p].work_completed = SumFirstStopWork(StoppedCompleted(p))
        /\ ActiveSet(p) = NeverStopped(p)
        /\ Len(progress[p].active_tasks) = Cardinality(NeverStopped(p))

\* cancel() and then another stop call: the task stays counted as cancelled.
C4_Witness ==
    \E p \in Progresses : \E t \in TaskIds :
        /\ tasks[t].progress = p
        /\ hist[t].first_stop = "cancelled"
        /\ hist[t].stopped_again
        /\ tasks[t].work_completed > 0
        /\ progress[p].n_tasks_cancelled = 1
        /\ progress[p].n_tasks_completed = 0
        /\ progress[p].work_completed = 0

\* C5: a Progress with no task that stopped non-cancelled and no active task with
\* a known expected amount has an unknown work_expected; a Progress no task was
\* added to has work_completed 0.
C5_UnknownWithoutSample ==
    \A p \in Progresses :
        /\ (StoppedCompleted(p) = {}
              /\ \A t \in NeverStopped(p) : tasks[t].work_expected = None)
                => work_expected(p) = None
        /\ TasksOf(p) = {} => progress[p].work_completed = 0

\* Every task so far was cancelled, one of them with a known expected amount.
C5_Witness ==
    \E p \in Progresses :
        /\ TasksOf(p) # {}
        /\ TasksOf(p) = StoppedCancelled(p)
        /\ \E t \in TasksOf(p) : tasks[t].work_expected # None
        /\ work_expected(p) = None

\* The projection formula of the specification along a chain of Progresses.
RECURSIVE NestedLaw(_)
NestedLaw(p) ==
    IF progress[p].n_tasks.kind = "int"
    THEN ProjectionLaw(p, progress[p].n_tasks.val)
    ELSE LET inner == NestedLaw(progress[p].n_tasks.val)
         IN  IF inner = None THEN None ELSE ProjectionLaw(p, Val(inner))

\* C10: a Progress whose n_tasks is another Progress projects with N equal to
\* that Progress's current work_expected, and is unknown whenever that one is
\* unknown; at every depth of the chain.
C10_NestedEstimation == \A p \in Progresses : work_expected(p) = NestedLaw(p)

\* Three levels, each with a known projection that its inner level scales.
C10_Witness ==
    /\ Progresses = {1, 2, 3}
    /\ progress[1].n_tasks = IntCount(3)
    /\ work_expected(1) = Some(6)
    /\ work_expected(2) = Some(12)
    /\ work_expected(3) = Some(24)

AllReturned == \A c \in Callers : script[c] = <<>> /\ Idle(c)

\* C6: once the NWorkers workers, each owning one task of Progress(NWorkers),
\* have all run start, NUpdates times update(1) and stop, in whatever
\* interleaving: n_tasks_completed = NWorkers, no task is active,
\* work_completed = work_expected = NWorkers * NUpdates.
C6_WorkersFinal ==
    AllReturned =>
        /\ progress[1].n_tasks_completed = NWorkers
        /\ progress[1].active_tasks = <<>>
        /\ progress[1].work_completed = NWorkers * NUpdates
        /\ work_expected(1) = Some(NWorkers * NUpdates)

\* Every worker has finished.
C6_Witness ==
    /\ AllReturned
    /\ Len(tasks) = NWorkers
    /\ \A t \in TaskIds : hist[t].first_stop = "completed" /\ hist[t].delta_sum = NUpdates
    /\ progress[1].work_completed = NWorkers * NUpdates

SentCompleted(p) == {t \in TasksOf(p) : sent[t].first_stop = "completed"}
SentCancelled(p) == {t \in TasksOf(p) : sent[t].first_stop = "cancelled"}

RECURSIVE SumSentStopWork(_)
SumSentStopWork(S) ==
    IF S = {} THEN 0
    ELSE LET t == CHOOSE x \in S : TRUE
         IN  sent[t].first_stop_work + SumSentStopWork(S \ {t})

\* C7: a stand-in looked up under an id refers to the very object the id was
\* issued for, so once the update and stop calls made through stand-ins have
\* returned, each owning Task's work_completed is the sum of the deltas sent
\* to it, and the owning Progress's counters and work_completed reflect the
\* stops sent to its tasks.
C7_StandInActsOnOwner ==
    /\ \A x \in 1..Len(proxies) :
          /\ proxies[x].id \in DOMAIN issued
          /\ issued[proxies[x].id].typeid = proxies[x].typeid
          /\ proxies[x].target = issued[proxies[x].id].object
    /\ \A t \in TaskIds : tasks[t].work_completed = sent[t].delta_sum
    /\ \A p \in Progresses :
          /\ progress[p].n_tasks_completed = Cardinality(SentCompleted(p))
          /\ progress[p].n_tasks_cancelled = Cardinality(SentCancelled(p))
          /\ progress[p].work_completed = SumSentStopWork(SentCompleted(p))
          /\ ActiveSet(p) = {t \in TasksOf(p) : sent[t].first_stop = "none"}

\* Two tasks are registered; the stand-in of the second one got two update(1)
\* calls and a stop, and the first task is untouched.
C7_Witness ==
    \E x \in TaskProxies :
        LET t == proxies[x].target IN
        /\ t = 2
        /\ Cardinality(DOMAIN server._tasks) = 2
        /\ sent[t].delta_sum = 2
        /\ sent[t].first_stop = "completed"
        /\ tasks[t].work_completed = 2
        /\ tasks[1].work_completed = 0
        /\ progress[tasks[t].progress].n_tasks_completed = 1
        /\ progress[tasks[t].progress].work_completed = 2

\* C8: the step that stops a Task removes the Task's entry from the
\* registry's task table, and the step Progress.stop() removes the entry of
\* that Progress, so that the tables hold no entry for a stopped object.
C8_Step ==
    /\ \A t \in TaskIds :
          (hist[t].first_stop = "none" /\ hist'[t].first_stop # "none")
              => ~InValues(server'._tasks, t)
    /\ \A p \in Progresses :
          (\E c \in Callers : progress_stop(c, p))
              => ~InValues(server'._processes, p)

C8_StopUnregisters == [][C8_Step]_vars

\* C9: serializing a Progress or a Task yields a handle (the id the object
\* is registered under, with the server's address and key), the object being
\* registered by the call when it was not registered before.
C9_ReduceYieldsHandle ==
    \A c \in Callers :
        /\ result[c].call = "Task.__reduce__" =>
              /\ result[c].kind = "handle"
              /\ result[c].val \in DOMAIN server._tasks
              /\ server._tasks[result[c].val] = result[c].arg
        /\ result[c].call = "Progress.__reduce__" =>
              /\ result[c].kind = "handle"
              /\ result[c].val \in DOMAIN server._processes
              /\ server._processes[result[c].val] = result[c].arg

\* C11: a with block left by an exception stops its task as cancelled
\* (n_tasks_cancelled counts it, n_tasks_completed and work_completed do
\* not), a block left normally stops it as completed, for a Task and for a
\* stand-in alike.
C11_ScopeExit ==
    \A p \in Progresses :
        /\ progress[p].n_tasks_cancelled = Cardinality(SentCancelled(p))
        /\ progress[p].n_tasks_completed = Cardinality(SentCompleted(p))
        /\ progress[p].work_completed = SumSentStopWork(SentCompleted(p))

\* C12: add_cancelled_task() adds exactly 1 to n_tasks_cancelled, adds no Task
\* to the active set and leaves n_tasks_completed and work_completed as they
\* were; on a Progress(1) with nothing else work_expected is then unknown and
\* work_completed is 0.
C12_Step ==
    \A c \in Callers, p \in Progresses :
        add_cancelled_task(c, p) =>
            /\ progress'[p].n_tasks_cancelled = progress[p].n_tasks_cancelled + 1
            /\ progress'[p].active_tasks = progress[p].active_tasks
            /\ tasks' = tasks
            /\ progress'[p].n_tasks_completed = progress[p].n_tasks_completed
            /\ progress'[p].work_completed = progress[p].work_completed
            /\ (progress[p] = NewProgress(IntCount(1), FALSE, FALSE)) =>
                  /\ WorkExpectedOf(progress', tasks', p) = None
                  /\ progress'[p].work_completed = 0

C12_AddCancelledTask == [][C12_Step]_vars

\* C13: Progress() without a task count is constructed, with work_completed 0
\* and an unknown work_expected; an int and a Progress are accepted as well,
\* and only another kind of value is refused, with a usage error.
C13_NoCountIsValid ==
    \A c \in Callers :
        /\ result[c].call = "Progress()" =>
              /\ result[c].kind = "Progress"
              /\ progress[result[c].val].work_completed = 0
              /\ work_expected(result[c].val) = None
        /\ result[c].call \in {"Progress(int)", "Progress(Progress)"} =>
              result[c].kind = "Progress"
        /\ result[c].call = "Progress(other)" => result[c].kind = "ValueError"

\* The ids the table has for an object.
IdsOf(table, obj) == {id \in DOMAIN table : table[id] = obj}
AtMostOneId(srv) ==
    /\ \A t \in TaskIds : Cardinality(IdsOf(srv._tasks, t)) <= 1
    /\ \A p \in Progresses : Cardinality(IdsOf(srv._processes, p)) <= 1

\* What a register call must do: refuse an object that is in the table and
\* leave the table as it is, or enter the object under an id never used.
RegisterLaw(c, table, obj) ==
    IF IdsOf(server[table], obj) # {}
    THEN result'[c].kind = "ValueError" /\ server' = server
    ELSE /\ result'[c].kind = "id"
         /\ result'[c].val \notin DOMAIN issued
         /\ DOMAIN server'[table] = DOMAIN server[table] \cup {result'[c].val}
         /\ server'[table][result'[c].val] = obj
         /\ \A id \in DOMAIN server[table] : server'[table][id] = server[table][id]

\* C14: register fails with a usage error for an object that is already in
\* the table and leaves the table unchanged; whatever the order of the calls
\* of the two threads, an object never has two ids in the table, and a
\* registration after unregister gets a fresh id.
C14_Step ==
    /\ AtMostOneId(server) /\ AtMostOneId(server')
    /\ \A c \in Callers :
          /\ \A t \in TaskIds : register_task(c, t) => RegisterLaw(c, "_tasks", t)
          /\ \A p \in Progresses :
                register_progress(c, p) => RegisterLaw(c, "_processes", p)

C14_RegisterOnce == [][C14_Step]_vars

\* One thread was refused, the object has one id; and an object registered
\* again after unregister has a second, fresh id.
C14_Witness ==
    /\ \E c \in Callers : result[c].call = "register_task" /\ result[c].kind = "ValueError"
    /\ \E t \in TaskIds :
          /\ Cardinality(IdsOf(server._tasks, t)) = 1
          /\ Cardinality({id \in DOMAIN issued :
                             issued[id] = [typeid |-> "Task", object |-> t]}) = 2

\* C15: a lookup of an id that has no entry fails with an error that carries
\* the ids the table has, for Task ids and Progress ids, in the owning
\* process and at a client, and leaves the table unchanged.
LookupFailureLaw(c, table) ==
    /\ result'[c].kind \in {"KeyError", "RemoteError"}
    /\ result'[c].note = Some(DOMAIN server[table])
    /\ server' = server

C15_Step ==
    \A c \in Callers, id \in 1..MaxIds :
        /\ (id \notin DOMAIN server._tasks /\ (resolve_task(c, id) \/ lookup_task(c, id)))
              => LookupFailureLaw(c, "_tasks")
        /\ (id \notin DOMAIN server._processes
               /\ (resolve_progress(c, id) \/ lookup_progress(c, id)))
              => LookupFailureLaw(c, "_processes")

C15_LookupErrorCarriesIds == [][C15_Step]_vars

\* C16: from id = register(o) on, a lookup of id gives o, whatever is
\* registered or unregistered besides, until unregister(id); only
\* unregister(id) removes the entry, and from then on the lookup of id fails.
TableOf(srv, id) == IF issued[id].typeid = "Task" THEN srv._tasks ELSE srv._processes
LookupOf(id) == IF issued[id].typeid = "Task" THEN _lookup_task(id) ELSE _lookup_progress(id)

C16_Step ==
    /\ \A id \in DOMAIN issued :
          IF id \in DOMAIN TableOf(server, id)
          THEN /\ LookupOf(id).kind = "object"
               /\ LookupOf(id).val = issued[id].object
               /\ id \notin DOMAIN TableOf(server', id) =>
                     \E c \in Callers : unregister_task(c, id) \/ unregister_progress(c, id)
          ELSE /\ LookupOf(id).kind = "KeyError"
               /\ id \notin DOMAIN TableOf(server', id)
    /\ \A c \in Callers, id \in DOMAIN issued :
          (resolve_task(c, id) \/ resolve_progress(c, id)) /\ result'[c].kind = "object"
              => result'[c].val = issued[id].object

C16_RoundTrip == [][C16_Step]_vars

\* A lookup returned the second task under its id after the first task's id
\* was unregistered.
C16_Witness ==
    \E c \in Callers :
        /\ result[c].call = "_lookup_task" /\ result[c].kind = "object"
        /\ result[c].val = 2
        /\ \E id \in DOMAIN issued :
              issued[id].typeid = "Task" /\ issued[id].object = 1
              /\ id \notin DOMAIN server._tasks

\* C17: unregister(id) removes the mapping of id and nothing else; for an id
\* that has no entry it raises nothing and changes nothing.
UnregisterLaw(c, table, other, id) ==
    /\ DOMAIN server'[table] = DOMAIN server[table] \ {id}
    /\ \A j \in DOMAIN server'[table] : server'[table][j] = server[table][j]
    /\ server'[other] = server[other]
    /\ result'[c].kind = "none"
    /\ id \notin DOMAIN server[table] => server' = server

C17_Step ==
    \A c \in Callers, id \in 1..MaxIds :
        /\ unregister_task(c, id) => UnregisterLaw(c, "_tasks", "_processes", id)
        /\ unregister_progress(c, id) => UnregisterLaw(c, "_processes", "_tasks", id)

C17_UnregisterOnlyId == [][C17_Step]_vars

\* One task's id was unregistered while the other task keeps its entry.
C17_Witness ==
    /\ Cardinality(DOMAIN server._tasks) = 1
    /\ \E id \in DOMAIN issued : issued[id].typeid = "Task" /\ id \notin DOMAIN server._tasks

\* C18: every ProxyServer() call of the process returns the same instance,
\* first calls racing from several threads included: one endpoint and one
\* serving thread are created, never more.
C18_OneProxyServer ==
    /\ module.servers <= 1
    /\ \A c \in Callers : result[c].call = "ProxyServer" =>
          /\ result[c].kind = "instance"
          /\ result[c].val = 1
          /\ module.servers = 1

\* Two threads called ProxyServer() and both got the one instance.
C18_Witness ==
    /\ module.servers = 1
    /\ \E c, d \in Callers :
          /\ c # d
          /\ result[c].call = "ProxyServer" /\ result[d].call = "ProxyServer"
          /\ result[c].val = result[d].val

\* C19: all ProxyClient calls with the same (address, authkey) pair,
\* one after the other or at once from several threads, return the same
\* connection object and open one connection; different pairs get different
\* connection objects.
C19_OneClientPerPair ==
    /\ \A key \in Pairs :
          Cardinality({i \in 1..Len(module.clients) : module.clients[i] = key}) <= 1
    /\ \A c, d \in Callers :
          (result[c].call = "ProxyClient" /\ result[d].call = "ProxyClient") =>
              (result[c].arg = result[d].arg <=> result[c].val = result[d].val)

RECURSIVE SumTaskCompleted(_)
SumTaskCompleted(S) ==
    IF S = {} THEN 0
    ELSE LET t == CHOOSE x \in S : TRUE
         IN  tasks[t].work_completed + SumTaskCompleted(S \ {t})

\* C20: when the update(delta) calls that several threads made on an active
\* Task have all returned, the Task's completed amount is the sum of their
\* deltas (none is lost), and what a stop racing with them added to the
\* Progress's work_completed is the Task's completed amount.
C20_UpdatesSerialized ==
    (\A c \in Callers : Idle(c)) =>
        /\ \A t \in TaskIds : tasks[t].work_completed = sent[t].delta_sum
        /\ \A p \in Progresses :
              progress[p].work_completed = SumTaskCompleted(StoppedCompleted(p))

\* A step in which update was called on task t.
UpdateStep(t) ==
    /\ t \in TaskIds
    /\ \/ hist'[t].delta_sum # hist[t].delta_sum
       \/ tasks'[t] # tasks[t]

C21_Step ==
    \A t \in TaskIds :
        (hist[t].first_stop # "none" /\ UpdateStep(t)) =>
            LET p == tasks[t].progress IN
            /\ tasks'[t].work_completed = tasks[t].work_completed
            /\ tasks'[t].work_expected = tasks[t].work_expected
            /\ Counters(p)' = Counters(p)
            /\ progress'[p].active_tasks = progress[p].active_tasks
            /\ WorkExpectedOf(progress', tasks', p) = work_expected(p)

\* C21: once a Task was stopped or cancelled, an update(delta, work_expected)
\* call changes neither the Task's completed and expected amounts nor the
\* counters, the active list, work_completed or work_expected of its Progress.
C21_StoppedIsImmutable == [][C21_Step]_vars

\* A step in which the owner's Progress.stop() call ran.
ProgressStopStep == script'["owner"] # script["owner"]

C22_Step ==
    ProgressStopStep =>
        \A p \in Progresses :
            /\ progress'[p].active_tasks = <<>>
            /\ progress'[p].n_tasks_cancelled
                  = progress[p].n_tasks_cancelled + Len(progress[p].active_tasks)
            /\ progress'[p].n_tasks_completed = progress[p].n_tasks_completed
            /\ progress'[p].work_completed = progress[p].work_completed
            /\ progress[p].active_tasks = <<>>
                  => progress'[p] = progress[p] /\ tasks' = tasks

\* C22: after Progress.stop() returns the active list is empty, n_tasks_cancelled
\* has grown by exactly the number of tasks that were active, n_tasks_completed
\* and work_completed are as before (the partial work of the tasks it cancelled
\* is not counted), and a stop() call that finds no active task changes nothing.
C22_StopForceCancels == [][C22_Step]_vars

\* Progress.stop() was called twice; the first call cancelled two active tasks,
\* one of them with completed work.
C22_Witness ==
    \E p \in Progresses : \E t \in TaskIds :
        /\ script["owner"] = <<>>
        /\ \A u \in TaskIds : sent[u].first_stop = "forced"
        /\ Len(tasks) = 2
        /\ tasks[t].work_completed = 1
        /\ progress[p].active_tasks = <<>>
        /\ progress[p].n_tasks_cancelled = 2
        /\ progress[p].n_tasks_completed = 0
        /\ progress[p].work_completed = 0

\* C23: every call of add_task, update, stop, cancel, Progress.stop and every
\* read of work_expected that a thread started returns in the end, whatever the
\* other threads do on the Progresses of the chain; in particular Progress.stop,
\* which cancels the active tasks while it holds the lock, returns.
C23_EveryCallReturns ==
    \A c \in LockThreads : (call[c].pc # "idle") ~> (call[c].pc = "idle")

\* A thread inside Progress.stop holds the lock and is about to cancel an active
\* task, while another thread waits for a lock down the chain that a third
\* party's call holds.
C23_Witness ==
    \E c \in Callers, d \in Callers :
        /\ c # d
        /\ call[c].key = "Progress.stop" /\ call[c].pc = "cancel"
        /\ progress[call[c].at].active_tasks # <<>>
        /\ progress[call[c].at]._lock = [owner |-> Some(c), count |-> 1]
        /\ call[d].pc = "property"
        /\ progress[call[d].at]._lock.owner = Some(c)
        /\ \E q \in Progresses : progress[q]._lock.owner = Some(d)

\* A step in which stop or cancel was called on task t.
StopStep(t) == t \in TaskIds /\ hist'[t] # hist[t] /\ hist'[t].delta_sum = hist[t].delta_sum

\* The overall row of Progress p, in the state `pr` of the Progresses.
OverallRow(pr, p) == pr[p]._progress_bar.rows[Val(pr[p]._overall_progress_id)]

\* The overall row of p shows what p holds.
OverallIsCurrent(pr, ts, p) ==
    /\ OverallRow(pr, p).completed
          = Some(pr[p].work_completed + ActiveCompletedSum(pr[p].active_tasks, ts))
    /\ OverallRow(pr, p).total = WorkExpectedOf(pr, ts, p)

C24_Step ==
    \A t \in TaskIds :
        (UpdateStep(t) \/ StopStep(t)) =>
            LET p == tasks[t].progress IN
            progress[p]._overall_progress_id # None
                => OverallIsCurrent(progress', tasks', p)

\* C24: with a renderer and an overall row, when Task.update, Task.stop or
\* Task.cancel has returned, the overall row carries completed = work_completed
\* + the completed amounts of the active tasks and total = work_expected.
C24_NotifyOnUpdateAndStop == [][C24_Step]_vars

\* The call `op` of the remote worker's program ran in this step.
RemoteRan(op) == AtCall("remote", op) /\ script'["remote"] = Tail(script["remote"])

C25_Step ==
    LET t == proxies[1].target IN
    /\ RemoteRan("update") => tasks'[t].work_completed = tasks[t].work_completed + 1
    /\ RemoteRan("exit") => ~Contains(progress'[tasks[t].progress].active_tasks, t)
    /\ RemoteRan("work_completed") =>
          /\ result'["remote"].kind # "RemoteError"
          /\ result'["remote"].val = tasks[t].work_completed
    /\ RemoteRan("work_expected") =>
          /\ result'["remote"].kind # "RemoteError"
          /\ Some(result'["remote"].val) = tasks[t].work_expected

\* C25: each operation of the stand-in is carried out on the owning Task before
\* it returns and succeeds as it would locally: an update has added its delta, a
\* stop has taken the task from the active list, and reading work_completed or
\* work_expected gives the owning Task's current value.
C25_StandInOperations == [][C25_Step]_vars

\* The k-th element of range(n), and of enumerate(seq) for the sequences handed
\* to it.
KthOfRange(k) == <<k - 1>>
KthOfEnumerate(k) == <<k - 1, Letters[k]>>

\* C26: a loop over task.range(n) or task.enumerate(seq), on a Task or on a
\* stand-in, hands over the elements of range(n) / enumerate(seq) in order; when
\* the k-th element is handed over, work_completed has risen by exactly k - 1
\* since the loop began, and when the loop has ended by itself it has risen by
\* exactly the number of elements.
C26_OneUpdatePerElement ==
    \A c \in Callers :
        /\ call[c].pc = "yielded" =>
              LET t == call[c].task
                  k == sent[t].delivered
              IN  /\ k \in 1..sent[t].elements
                  /\ result[c].kind = "item"
                  /\ result[c].val = IF result[c].call = "range" THEN KthOfRange(k)
                                     ELSE KthOfEnumerate(k)
                  /\ tasks[t].work_completed = sent[t].base + (k - 1)
        /\ result[c].kind = "StopIteration" =>
              LET t == result[c].arg IN
              /\ sent[t].delivered = sent[t].elements
              /\ tasks[t].work_completed = sent[t].base + sent[t].elements

\* The remote worker's loop over enumerate(<<"a", "b">>) on the stand-in ended
\* by itself.
C26_Witness ==
    /\ result["remote"] = Raised("enumerate", 2, "StopIteration", None)
    /\ sent[2] = [base |-> 0, elements |-> 2, delivered |-> 2]
    /\ tasks[2].work_completed = 2
    /\ hist[2].delta_sum = 2

\* The tasks add_task was given a description for.
Labelled == {t \in TaskIds : sent[t].labelled}

\* C27: a task added with a description has a row of its own from add_task on;
\* while the task is active the row is live and shows the task's amounts; once
\* the task was stopped or cancelled, however often, exactly one remove_task
\* (transient) or stop_task (not transient) was sent for the row, which is gone
\* in the first case and still there, stopped, in the second; a task added
\* without a description has no row, and the renderer has no rows but the
\* overall one and those of the tasks with a description.
C27_RowLifecycle ==
    \A p \in Progresses :
        LET rows == progress[p]._progress_bar.rows IN
        /\ Len(rows) = 1 + Cardinality(Labelled \cap TasksOf(p))
        /\ \A t \in TasksOf(p) \ Labelled : tasks[t].progress_bar_task_id = None
        /\ \A t \in TasksOf(p) \cap Labelled :
              /\ tasks[t].progress_bar_task_id # None
              /\ Val(tasks[t].progress_bar_task_id) \in 1..Len(rows)
              /\ tasks[t].progress_bar_task_id # progress[p]._overall_progress_id
              /\ \A u \in (TasksOf(p) \cap Labelled) \ {t} :
                    tasks[u].progress_bar_task_id # tasks[t].progress_bar_task_id
              /\ LET row == rows[Val(tasks[t].progress_bar_task_id)] IN
                 IF hist[t].first_stop = "none"
                 THEN /\ row.state \in {"added", "started"}
                      /\ row.ended = 0
                      /\ row.completed = Some(tasks[t].work_completed)
                      /\ row.total = tasks[t].work_expected
                 ELSE /\ row.state = IF sent[t].transient THEN "removed" ELSE "stopped"
                      /\ row.ended = 1

\* A task with a description that is not transient was stopped and then
\* cancelled, and a transient one was cancelled: the first row is still there,
\* the second is gone, one notification each.
C27_Witness ==
    \E p \in Progresses : \E t, u \in Labelled :
        /\ ~sent[t].transient /\ hist[t].first_stop = "completed" /\ hist[t].stopped_again
        /\ sent[u].transient /\ hist[u].first_stop = "cancelled"
        /\ LET rows == progress[p]._progress_bar.rows IN
           /\ rows[Val(tasks[t].progress_bar_task_id)].state = "stopped"
           /\ rows[Val(tasks[t].progress_bar_task_id)].ended = 1
           /\ rows[Val(tasks[u].progress_bar_task_id)].state = "removed"
           /\ rows[Val(tasks[u].progress_bar_task_id)].ended = 1

\* The task count work_expected scales by: the resolved n_tasks less the
\* cancelled tasks, raised to the count of tasks it knows.
ScaledCount(p, N) ==
    AtLeastKnown(LessCancelled(N, progress[p].n_tasks_cancelled),
                 NTasksKnown(progress[p], tasks))

\* C28: the expected task count of a Progress, resolved to N, is at least
\* n_tasks_completed + the number of its active tasks, also when more tasks were
\* added than the count given at construction (read here in the way that favours
\* the code most: N as the count work_expected scales by, where that is larger
\* than n_tasks).
C28_ExpectedCountCoversTasks ==
    \A p \in Progresses :
        progress[p].n_tasks.kind = "int" =>
            Max(progress[p].n_tasks.val, ScaledCount(p, progress[p].n_tasks.val))
                >= progress[p].n_tasks_completed + Len(progress[p].active_tasks)

\* The tasks add_task of Progress p returned so far, by the book of the calls.
Added(p) == {t \in DOMAIN sent : tasks[t].progress = p}

\* How often task t is in the list s.
Occurrences(s, t) == Cardinality({i \in 1..Len(s) : s[i] = t})

Conserved(pr, sn, ts) ==
    \A p \in DOMAIN pr :
        /\ Cardinality({t \in DOMAIN sn : ts[t].progress = p})
              = pr[p].n_tasks_completed + pr[p].n_tasks_cancelled
                  + Len(pr[p].active_tasks)
        /\ \A t \in DOMAIN sn : Occurrences(pr[p].active_tasks, t) <= 1

C29_Step ==
    /\ Conserved(progress, sent, tasks)
    /\ Conserved(progress', sent', tasks')
    /\ \A p \in Progresses : \A t \in Added(p) :
          ~Contains(progress[p].active_tasks, t)
              => ~Contains(progress'[p].active_tasks, t)

\* C29: whatever add_task, update, stop, cancel and Progress.stop calls were
\* made, the number of tasks add_task returned is n_tasks_completed +
\* n_tasks_cancelled + the length of the active list, no task is in the active
\* list twice, and a task that left the active list is never in it again.
C29_TaskConservation == [][C29_Step]_vars

\* One task was stopped by the user and then stopped again, the other was
\* cancelled by Progress.stop while an update of it was in flight.
C29_Witness ==
    \E p \in Progresses : \E t, u \in Added(p) :
        /\ sent[t].first_stop = "completed" /\ hist[t].stopped_again
        /\ sent[u].first_stop = "forced"
        /\ call["user"].pc = "add" /\ call["user"].task = u
        /\ progress[p].n_tasks_completed = 1
        /\ progress[p].n_tasks_cancelled = 1
        /\ progress[p].active_tasks = <<>>

\* Task t gets its first stop call in this step, and it is not a cancel.
FirstCompletedStop(t) ==
    t \in TaskIds /\ hist[t].first_stop = "none" /\ hist'[t].first_stop = "completed"

C30_Step ==
    \A p \in Progresses :
        /\ progress'[p].work_completed = SumFirstStopWork(StoppedCompleted(p))'
        /\ progress'[p].work_completed >= progress[p].work_completed
        /\ progress'[p].work_completed # progress[p].work_completed
              => \E t \in TasksOf(p) :
                    /\ FirstCompletedStop(t)
                    /\ progress'[p].work_completed
                          = progress[p].work_completed + tasks[t].work_completed

\* C30: the work_completed of a Progress is the sum, over its tasks whose first
\* stop call was not a cancel, of the amount each had completed at that call; it
\* changes only in such a call, by that amount, and never in add_task, update,
\* start, cancel, a repeated stop or Progress.stop, so it never decreases.
C30_CompletedWorkAccounting == [][C30_Step]_vars

\* A task was stopped with 1 completed and stopped once more, another one with
\* completed work was cancelled by Progress.stop: work_completed is 1.
C30_Witness ==
    \E p \in Progresses : \E t, u \in TasksOf(p) :
        /\ hist[t].first_stop = "completed" /\ hist[t].first_stop_work = 1
        /\ hist[t].stopped_again
        /\ sent[u].first_stop = "forced"
        /\ tasks[u].work_completed = 1
        /\ progress[p].work_completed = 1

====
